---- MODULE Spec2Model ----
(***************************************************************************)
(* Session / authorization and usage-governance core of the cover letter   *)
(* assistant: invitation lookup, signed session tokens, the sliding-window *)
(* rate limiter, the daily quota tracker, the preference learning engine   *)
(* and the audit log (src/app.py, src/security_utils.py,                   *)
(* src/admin_dashboard.py).                                                *)
(*                                                                         *)
(* Persisted files are modelled as maps (a missing file is the empty map), *)
(* the wall clock as the variable now (seconds), the Streamlit session as  *)
(* the record session.  Each component has its own specification over the  *)
(* same variables: SpecRate, SpecAuth, SpecQuota, SpecGate, SpecPrefs,     *)
(* SpecVerify, SpecRequest, SpecCaps, SpecStats, SpecStorage, SpecLogin,   *)
(* SpecLookup, SpecReset, SpecRace, SpecKeys.                              *)
(***************************************************************************)
EXTENDS Integers, Sequences, FiniteSets, TLC

VARIABLES
    now,            \* datetime.now(), in seconds
    rate_data,      \* ./rate_limits_{action}.json : action -> (email -> timestamps)
    audit_log,      \* ./security_audit.log : one record per line
    handlers,       \* FileHandlers attached to the 'security' logger
    usage_data,     \* ./daily_usage.json : date -> (user -> count)
    invited_users,  \* ./invited_users.json "invited_users" : email -> record
    session,        \* st.session_state of the one browser session modelled
    preferences,    \* ./user_preferences/<user>.json : user -> profile
    issued,         \* history: every credential create_session_token returned
    recorded,       \* history: per user, the date and count of its last records
    pc,             \* position of the generation request being handled
    calls,          \* concurrent script runs: the call each one makes
    ret             \* the last call and the value it returned

vars == <<now, rate_data, audit_log, handlers, usage_data, invited_users,
          session, preferences, issued, recorded, pc, calls, ret>>

----------------------------------------------------------------------------
(* Bounds of the model *)

MaxLog == 2          \* audit events recorded in a run of SpecRate and SpecAuth

MaxRecords == 7      \* audit events recorded in a run of SpecQuota and SpecGate

MaxUpdates == 3      \* preference updates made in a run of SpecPrefs

----------------------------------------------------------------------------
(* Maps (JSON objects / Python dicts) *)

EmptyMap == [k \in {} |-> 0]

Get(m, k, default) == IF k \in DOMAIN m THEN m[k] ELSE default

Put(m, k, v) == [x \in (DOMAIN m) \cup {k} |-> IF x = k THEN v ELSE m[x]]

Remove(m, keys) == [x \in (DOMAIN m) \ keys |-> m[x]]

\* the map m with the entries of n set
Update(m, n) ==
    [x \in (DOMAIN m) \cup (DOMAIN n) |-> IF x \in DOMAIN n THEN n[x] ELSE m[x]]

Max(a, b) == IF a >= b THEN a ELSE b

----------------------------------------------------------------------------
(* Audit log: security_utils.log_security_event *)

LogEntry(event_type, user_email, details) ==
    [event_type |-> event_type, user_email |-> user_email, details |-> details]

\* setup_security_logging: every call adds a FileHandler to the logger
\* logging.getLogger('security'), which is one object per process
setup_security_logging(attached) == attached + 1

\* security_logger.info(...): each attached handler appends the line
log_security_event(log, event_type, user_email, details) ==
    log \o [i \in 1 .. setup_security_logging(handlers) |->
                LogEntry(event_type, user_email, details)]

----------------------------------------------------------------------------
(* Rate limiter: security_utils.check_rate_limit *)

RateActions == {"authentication", "file_upload"}

RateUsers == {"a@x.com", "b@x.com"}

\* the calls made: <<action, max_requests, time_window_minutes>>
RateCalls == {<<"authentication", 1, 1>>, <<"authentication", 2, 1>>,
              <<"file_upload", 1, 2>>}

RateInstants == {30, 60, 90, 120}

cutoff_time(time_window_minutes) == now - (time_window_minutes * 60)

KeepNewerOrEqual(reqs, cutoff) == SelectSeq(reqs, LAMBDA req : req >= cutoff)

\* user_requests = [req for req in user_requests if req > cutoff_time]
KeepNewer(reqs, cutoff) == SelectSeq(reqs, LAMBDA req : req > cutoff)

user_requests(user_email, action, time_window_minutes) ==
    KeepNewer(Get(rate_data[action], user_email, <<>>),
              cutoff_time(time_window_minutes))

LimitExceededOffByOne(n, max_requests) == n > max_requests

\* if len(user_requests) >= max_requests
LimitExceeded(n, max_requests) == n >= max_requests

RateAdmits(user_email, action, max_requests, time_window_minutes) ==
    ~LimitExceeded(Len(user_requests(user_email, action, time_window_minutes)),
                   max_requests)

RateDataAfterSavingRejected(user_email, action, max_requests, time_window_minutes) ==
    [rate_data EXCEPT ![action] =
        Put(@, user_email,
            IF RateAdmits(user_email, action, max_requests, time_window_minutes)
            THEN Append(user_requests(user_email, action, time_window_minutes), now)
            ELSE user_requests(user_email, action, time_window_minutes))]

\* the store after the call: unchanged on rejection (the early return precedes
\* the save), the pruned window plus now under the user's key on admission
RateDataAfter(user_email, action, max_requests, time_window_minutes) ==
    IF RateAdmits(user_email, action, max_requests, time_window_minutes)
    THEN [rate_data EXCEPT ![action] =
            Put(@, user_email,
                Append(user_requests(user_email, action, time_window_minutes), now))]
    ELSE rate_data

\* the audit log after the call: one RATE_LIMIT_EXCEEDED line on rejection
RateLogAfter(log, user_email, action, max_requests, time_window_minutes) ==
    IF RateAdmits(user_email, action, max_requests, time_window_minutes)
    THEN log
    ELSE log_security_event(log, "RATE_LIMIT_EXCEEDED", user_email,
            [action |-> action,
             request_count |-> Len(user_requests(user_email, action, time_window_minutes)),
             max_allowed |-> max_requests])

\* the handlers after the call: one more on rejection
RateHandlersAfter(user_email, action, max_requests, time_window_minutes) ==
    IF RateAdmits(user_email, action, max_requests, time_window_minutes)
    THEN handlers
    ELSE setup_security_logging(handlers)

check_rate_limit(user_email, action, max_requests, time_window_minutes) ==
    /\ handlers < MaxLog
    /\ rate_data' = RateDataAfter(user_email, action, max_requests, time_window_minutes)
    /\ audit_log' = RateLogAfter(audit_log, user_email, action, max_requests,
                                 time_window_minutes)
    /\ handlers' = RateHandlersAfter(user_email, action, max_requests,
                                     time_window_minutes)
    /\ ret' = [op |-> "check_rate_limit", user |-> user_email, action |-> action,
               max_requests |-> max_requests, window |-> time_window_minutes,
               value |-> RateAdmits(user_email, action, max_requests,
                                    time_window_minutes)]
    /\ UNCHANGED <<now, usage_data, invited_users, session, preferences, issued,
                   recorded, pc, calls>>

\* the wall clock moves forward to a later instant
Tick(t) ==
    /\ t > now
    /\ now' = t
    /\ UNCHANGED <<rate_data, audit_log, handlers, usage_data, invited_users, session,
                   preferences, issued, recorded, pc, calls, ret>>

----------------------------------------------------------------------------
(* Invitation registry: app.load_invited_users, is_user_invited, get_user_info *)

\* the spellings of addresses typed into the forms
AuthEmails == {"a@x.com", "A@x.com", "b@x.com"}

\* str.lower() on the strings of the model
lower(s) ==
    CASE s = "A@x.com" -> "a@x.com"
      [] s = "B@x.com" -> "b@x.com"
      [] OTHER -> s

\* the characters of the addresses of the model; the domain "x.com" is one
\* piece but for its dot
chars(text) ==
    CASE text = "a@x.com" -> <<"a", "@", "x", ".", "com">>
      [] text = "b@x.com" -> <<"b", "@", "x", ".", "com">>
      [] text = "a.b@x.com" -> <<"a", ".", "b", "@", "x", ".", "com">>
      [] text = "a_b@x.com" -> <<"a", "_", "b", "@", "x", ".", "com">>
      [] text = "a+b@x.com" -> <<"a", "+", "b", "@", "x", ".", "com">>
      [] text = "A@x.com" -> <<"A", "@", "x", ".", "com">>
      [] text = "B@x.com" -> <<"B", "@", "x", ".", "com">>
      [] text = "c@x.com" -> <<"c", "@", "x", ".", "com">>
      [] OTHER -> <<text>>

LocalChars == {"a", "b", "c", "A", "B", ".", "_", "%", "+", "-"}

DomainChars == {"a", "b", "c", "x", "A", "B", ".", "-"}

\* the runs of two or more letters of the model
TopLevelDomains == {"com"}

\* ^[a-zA-Z0-9._%+-]+@[a-zA-Z0-9.-]+\.[a-zA-Z]{2,}$
matches_email_pattern(text) ==
    \E i \in DOMAIN text :
        /\ text[i] = "@"
        /\ i > 1
        /\ \A j \in 1 .. i - 1 : text[j] \in LocalChars
        /\ Len(text) >= i + 3
        /\ \A j \in i + 1 .. Len(text) - 2 : text[j] \in DomainChars
        /\ text[Len(text) - 1] = "."
        /\ text[Len(text)] \in TopLevelDomains

\* the texts of the model that name a user
UserTexts ==
    {"", "a@x.com", "b@x.com", "c@x.com", "A@x.com", "B@x.com",
     "a.b@x.com", "a_b@x.com", "a+b@x.com"}

\* the texts of the model that match the pattern, worked out once
MatchingTexts == {t \in UserTexts : matches_email_pattern(chars(t))}

\* re.match(email_pattern, email) is not None
validate_email_format(email) ==
    IF email \in UserTexts THEN email \in MatchingTexts
    ELSE matches_email_pattern(chars(email))

Statuses == {"active", "inactive", "suspended"}

UserRecord(status) == [status |-> status, access_level |-> "user"]

InvitedWhenActive(email) ==
    \E user_email \in DOMAIN invited_users :
        /\ lower(user_email) = lower(email)
        /\ invited_users[user_email].status = "active"

\* email.lower() in [user_email.lower() for user_email in invited_users.keys()]
is_user_invited(email) ==
    lower(email) \in {lower(user_email) : user_email \in DOMAIN invited_users}

InvitedWithoutLower(email) == email \in DOMAIN invited_users

\* the first record whose key equals email up to case, or None
get_user_info(email) ==
    IF \E k \in DOMAIN invited_users : lower(k) = lower(email)
    THEN invited_users[CHOOSE k \in DOMAIN invited_users : lower(k) = lower(email)]
    ELSE "None"

----------------------------------------------------------------------------
(* Session tokens: app.create_session_token, app.verify_session_token *)

secret_key == "default-secret-key"

session_timeout_hours == 24

timedelta_hours(h) == h * 3600

\* hmac.new(key, data, sha256).hexdigest(): a keyed hash without collisions
hmac_sha256(key, data) == <<"hmac-sha256", key, data>>

TokenDataWithoutEmail(email, timestamp_str) == <<timestamp_str>>

\* data = f"{email}:{timestamp}"
token_data(email, timestamp_str) == <<email, timestamp_str>>

\* f"{token}:{timestamp}": the pieces of the string between its ':' separators
create_session_token_at(email, timestamp) ==
    <<hmac_sha256(secret_key, token_data(email, timestamp)), timestamp>>

create_session_token(email) == create_session_token_at(email, now)

ExpiredFromTimeout(age, timeout) == age >= timeout

\* datetime.now() - timestamp > timedelta(hours=timeout_hours)
Expired(age, timeout) == age > timeout

\* token.split(':', 1) needs a separator, datetime.fromisoformat a timestamp;
\* every exception is caught and gives False
verify_session_token(email, token) ==
    IF Len(token) /= 2 \/ token[2] \notin Nat
    THEN FALSE
    ELSE IF Expired(now - token[2], timedelta_hours(session_timeout_hours))
         THEN FALSE
         ELSE token[1] = hmac_sha256(secret_key, token_data(email, token[2]))

\* The values a caller can pass as token.  A string is the sequence of its
\* pieces around the first ':' (token.split(':', 1)); the timestamp text of
\* instant t is the natural t, and NotATimestamp is a text that
\* datetime.fromisoformat does not parse.
StrValue(pieces) == [type |-> "str", pieces |-> pieces]

NoneValue == [type |-> "NoneType"]

IntValue == [type |-> "int"]

NotATimestamp == -1

Returned(value) == [raised |-> FALSE, value |-> value]

Raised(exception) == [raised |-> TRUE, exception |-> exception]

\* the try block of verify_session_token: token.split raises AttributeError
\* on a value that is no string, the unpacking into two names raises
\* ValueError without a separator, fromisoformat raises ValueError
verify_try_block(email, token) ==
    IF token.type /= "str" THEN Raised("AttributeError")
    ELSE IF Len(token.pieces) /= 2 THEN Raised("ValueError")
    ELSE IF token.pieces[2] \notin Nat THEN Raised("ValueError")
    ELSE Returned(verify_session_token(email, token.pieces))

ExceptReraises(result) == result

\* except Exception as e: logging.error(...); return False
except_Exception(result) == IF result.raised THEN Returned(FALSE) ELSE result

\* what a call of verify_session_token(email, token) gives its caller
verify_session_token_call(email, token) ==
    except_Exception(verify_try_block(email, token))

\* bound: credentials issued in a run of SpecVerify
MaxIssued == 2

VerifyUsers == {"a@x.com", "b@x.com"}

VerifyInstants == {3600, 90000, 93601}

\* a sign-in returns a credential for the identity (app.py:243)
IssueToken(email) ==
    /\ Cardinality(issued) < MaxIssued
    /\ issued' = issued \cup {[email |-> email, token |-> create_session_token(email)]}
    /\ ret' = [op |-> "create_session_token", user |-> email,
               value |-> create_session_token(email)]
    /\ UNCHANGED <<now, rate_data, audit_log, handlers, usage_data, invited_users, session,
                   preferences, recorded, pc, calls>>

\* datetime.now() is the naive local time of the host: it steps back at the
\* end of daylight saving time and when the system clock is corrected
ClockSetBack(t) ==
    /\ t < now
    /\ now' = t
    /\ UNCHANGED <<rate_data, audit_log, handlers, usage_data, invited_users, session,
                   preferences, issued, recorded, pc, calls, ret>>

\* the values presented as token: the issued credentials, their damaged
\* forms (separator lost, timestamp unreadable, signed with another key),
\* the empty string and values that are no strings
VerifyInputs ==
    {StrValue(i.token) : i \in issued}
    \cup {StrValue(<<i.token[1]>>) : i \in issued}
    \cup {StrValue(<<i.token[1], NotATimestamp>>) : i \in issued}
    \cup {StrValue(<<hmac_sha256("another-key", token_data(i.email, i.token[2])),
                     i.token[2]>>) : i \in issued}
    \cup {StrValue(<< <<>> >>), NoneValue, IntValue}

\* a call of verify_session_token by check_authentication (app.py:290)
VerifyCall(email, token) ==
    /\ ret' = [op |-> "verify_session_token", user |-> email, token |-> token,
               at |-> now, result |-> verify_session_token_call(email, token)]
    /\ UNCHANGED <<now, rate_data, audit_log, handlers, usage_data, invited_users, session,
                   preferences, issued, recorded, pc, calls>>

----------------------------------------------------------------------------
(* The authentication gate of main: app.check_authentication,             *)
(* show_authentication_page, logout_user                                  *)

AuthInstants == {900, 86400, 87300}

GateWithoutInvitationCheck(sess) ==
    /\ Get(sess, "authenticated", FALSE)
    /\ Get(sess, "user_email", "") /= ""
    /\ "session_token" \in DOMAIN sess
    /\ verify_session_token(sess["user_email"], sess["session_token"])

\* the value check_authentication returns for a session state
check_authentication_value(sess) ==
    /\ Get(sess, "authenticated", FALSE)
    /\ Get(sess, "user_email", "") /= ""
    /\ "session_token" \in DOMAIN sess
    /\ is_user_invited(sess["user_email"])
    /\ verify_session_token(sess["user_email"], sess["session_token"])

SessionLeftAsItWas(sess) == sess

\* the session state check_authentication leaves: the flag is cleared when the
\* identity is no longer invited or the token does not verify
check_authentication_session(sess) ==
    IF /\ Get(sess, "authenticated", FALSE)
       /\ Get(sess, "user_email", "") /= ""
       /\ "session_token" \in DOMAIN sess
       /\ ~check_authentication_value(sess)
    THEN Put(sess, "authenticated", FALSE)
    ELSE sess

\* a run of main with no form submitted: the gate only
MainRun ==
    /\ session' = check_authentication_session(session)
    /\ ret' = [op |-> "check_authentication",
               user |-> Get(session, "user_email", ""),
               value |-> check_authentication_value(session)]
    /\ UNCHANGED <<now, rate_data, audit_log, handlers, usage_data, invited_users,
                   preferences, issued, recorded, pc, calls>>

LoginOutcome(email) ==
    IF email = "" \/ ~validate_email_format(email) THEN "invalid"
    ELSE IF ~RateAdmits(email, "authentication", 5, 15) THEN "rate_limited"
    ELSE IF ~is_user_invited(email) THEN "not_invited"
    ELSE "granted"

\* a run of main with the authentication form submitted: the gate fails and
\* show_authentication_page handles the form
LoginEffects(email) ==
    /\ ~check_authentication_value(session)
    /\ rate_data' = IF LoginOutcome(email) = "invalid" THEN rate_data
                    ELSE RateDataAfter(email, "authentication", 5, 15)
    /\ audit_log' =
         CASE LoginOutcome(email) = "invalid" ->
                log_security_event(audit_log, "AUTH_FAILURE", email, EmptyMap)
           [] LoginOutcome(email) = "rate_limited" ->
                RateLogAfter(audit_log, email, "authentication", 5, 15)
           [] LoginOutcome(email) = "not_invited" ->
                log_security_event(audit_log, "AUTH_FAILURE", email, EmptyMap)
           [] OTHER ->
                log_security_event(audit_log, "AUTH_SUCCESS", email, EmptyMap)
    /\ handlers' = setup_security_logging(handlers)
    /\ session' =
         IF LoginOutcome(email) = "granted"
         THEN Update(check_authentication_session(session),
                     [authenticated |-> TRUE,
                      user_email |-> lower(email),
                      user_info |-> get_user_info(email),
                      session_token |-> create_session_token(lower(email)),
                      auth_timestamp |-> now])
         ELSE check_authentication_session(session)
    /\ issued' = IF LoginOutcome(email) = "granted"
                 THEN issued \cup {[email |-> lower(email),
                                    token |-> create_session_token(lower(email))]}
                 ELSE issued
    /\ ret' = [op |-> "show_authentication_page", user |-> email,
               value |-> LoginOutcome(email)]

Login(email) ==
    /\ handlers < MaxLog
    /\ LoginEffects(email)
    /\ UNCHANGED <<now, usage_data, invited_users, preferences, recorded, pc, calls>>

\* the sidebar button of an authenticated run
Logout ==
    /\ check_authentication_value(session)
    /\ session' = Remove(session, {"authenticated", "user_email", "user_info",
                                   "session_token", "auth_timestamp"})
    /\ ret' = [op |-> "logout_user", user |-> session["user_email"]]
    /\ UNCHANGED <<now, rate_data, audit_log, handlers, usage_data, invited_users,
                   preferences, issued, recorded, pc, calls>>

----------------------------------------------------------------------------
(* Administration of the roster: admin_dashboard.main *)

\* "Add User": refused when the address is present up to case
AdminAddUser(new_email) ==
    /\ ~(lower(new_email) \in {lower(k) : k \in DOMAIN invited_users})
    /\ invited_users' = Put(invited_users, lower(new_email), UserRecord("active"))
    /\ UNCHANGED <<now, rate_data, audit_log, handlers, usage_data, session, preferences,
                   issued, recorded, pc, calls, ret>>

\* "Save Changes" on the edited table: the rows kept, with the status chosen
AdminSaveChanges(rows, status) ==
    /\ rows \subseteq DOMAIN invited_users
    /\ invited_users' = [k \in rows |-> [invited_users[k] EXCEPT !.status = status[k]]]
    /\ invited_users' /= invited_users
    /\ UNCHANGED <<now, rate_data, audit_log, handlers, usage_data, session, preferences,
                   issued, recorded, pc, calls, ret>>

----------------------------------------------------------------------------
(* Daily quota tracker: security_utils.check_daily_cover_letter_limit,    *)
(* security_utils.record_cover_letter_generation                          *)

QuotaUsers == {"a@x.com", "b@x.com"}

QuotaInstants == {43200, 86400, 129600, 172800}

DefaultDailyLimit == 5

SecondsPerDay == 86400

\* datetime.now().strftime("%Y-%m-%d"), as the number of the local calendar day
current_date == now \div SecondsPerDay

\* "keep only today's data": the document the status call computes on (it is
\* not written back)
todays_usage_data ==
    IF current_date \notin DOMAIN usage_data
    THEN [d \in {current_date} |-> EmptyMap]
    ELSE [d \in {current_date} |-> Get(usage_data, current_date, EmptyMap)]

UsageOfLatestDate(user_email) ==
    IF DOMAIN usage_data = {} THEN 0
    ELSE Get(usage_data[CHOOSE d \in DOMAIN usage_data :
                            \A e \in DOMAIN usage_data : e <= d],
             user_email, 0)

\* today_usage = usage_data[current_date].get(user_email, 0)
today_usage(user_email) == Get(todays_usage_data[current_date], user_email, 0)

check_daily_cover_letter_limit(user_email, daily_limit) ==
    [allowed |-> today_usage(user_email) < daily_limit,
     remaining |-> Max(0, daily_limit - today_usage(user_email)),
     used_today |-> today_usage(user_email),
     reset_time |-> (current_date + 1) * SecondsPerDay,
     daily_limit |-> daily_limit]

IncrementBelowLimit(current_count) ==
    IF current_count < DefaultDailyLimit THEN current_count + 1 ELSE current_count

\* usage_data[current_date][user_email] = current_count + 1
Increment(current_count) == current_count + 1

\* the document record_cover_letter_generation saves: today's map is created
\* if needed, the user's count incremented, the other dates kept
usage_data_after_record(user_email) ==
    Put(usage_data, current_date,
        Put(Get(usage_data, current_date, EmptyMap), user_email,
            Increment(Get(Get(usage_data, current_date, EmptyMap), user_email, 0))))

\* the effects of record_cover_letter_generation(user_email), which returns True
RecordEffects(user_email) ==
    /\ usage_data' = usage_data_after_record(user_email)
    /\ audit_log' = log_security_event(audit_log, "COVER_LETTER_GENERATED", user_email,
            [daily_count |-> usage_data_after_record(user_email)[current_date][user_email],
             date |-> current_date])
    /\ handlers' = setup_security_logging(handlers)
    /\ recorded' = Put(recorded, user_email,
            [date |-> current_date,
             count |-> IF user_email \in DOMAIN recorded
                          /\ recorded[user_email].date = current_date
                       THEN recorded[user_email].count + 1 ELSE 1])

record_cover_letter_generation(user_email) ==
    /\ handlers < MaxRecords
    /\ RecordEffects(user_email)
    /\ ret' = [op |-> "record_cover_letter_generation", user |-> user_email,
               value |-> TRUE]
    /\ UNCHANGED <<now, rate_data, invited_users, session, preferences, issued, pc, calls>>

\* a status call: nothing is persisted
DailyStatus(user_email) ==
    /\ ret' = [op |-> "check_daily_cover_letter_limit", user |-> user_email,
               value |-> check_daily_cover_letter_limit(user_email, DefaultDailyLimit)]
    /\ UNCHANGED <<now, rate_data, audit_log, handlers, usage_data, invited_users, session,
                   preferences, issued, recorded, pc, calls>>

----------------------------------------------------------------------------
(* The generation request of main (app.py:1541-1646), handled one at a    *)
(* time for the signed-in user_id                                         *)

GenerationOutcomes == {"generated", "no_resume_data", "raised"}

QuotaGateAlwaysOpen(daily_status) == FALSE

\* if daily_status['remaining'] == 0: ... return
QuotaGateClosed(daily_status) == daily_status.remaining = 0

\* the run up to the quota gate: the limit is reached and the run returns
GenerateDenied(user_id) ==
    /\ pc = "idle"
    /\ QuotaGateClosed(check_daily_cover_letter_limit(user_id, DefaultDailyLimit))
    /\ ret' = [op |-> "generate", user |-> user_id, value |-> "daily_limit_reached"]
    /\ UNCHANGED <<now, rate_data, audit_log, handlers, usage_data, invited_users, session,
                   preferences, issued, recorded, pc, calls>>

\* the gate is passed and the button starts the generation
GenerateBegin(user_id) ==
    /\ pc = "idle"
    /\ handlers < MaxRecords
    /\ ~QuotaGateClosed(check_daily_cover_letter_limit(user_id, DefaultDailyLimit))
    /\ pc' = <<"generating", user_id>>
    /\ UNCHANGED <<now, rate_data, audit_log, handlers, usage_data, invited_users, session,
                   preferences, issued, recorded, ret, calls>>

\* the generation returns, or fails; only a returned letter is recorded
GenerateEnd(outcome) ==
    /\ pc /= "idle"
    /\ IF outcome = "generated"
       THEN RecordEffects(pc[2])
       ELSE UNCHANGED <<usage_data, audit_log, handlers, recorded>>
    /\ pc' = "idle"
    /\ ret' = [op |-> "generate", user |-> pc[2], value |-> outcome]
    /\ UNCHANGED <<now, rate_data, invited_users, session, preferences, issued, calls>>

----------------------------------------------------------------------------
(* Word-level diff: difflib.SequenceMatcher(None, a, b).get_opcodes() as   *)
(* used by app.analyze_user_edits.  Positions are 0-based as in Python;    *)
(* the autojunk heuristic only acts on sequences of 200 or more elements.  *)

\* s[lo:hi]
Slice(s, lo, hi) == SubSeq(s, lo + 1, hi)

RECURSIVE Concat(_)
Concat(seqs) == IF seqs = <<>> THEN <<>> ELSE Head(seqs) \o Concat(Tail(seqs))

\* str.split(): the maximal runs of characters other than the space, in the
\* order of their first characters
split(text) ==
    LET starts == {i \in 1 .. Len(text) :
                      text[i] /= " " /\ (i = 1 \/ text[i - 1] = " ")}
        word_end(i) == CHOOSE j \in i .. Len(text) :
                          /\ \A m \in i .. j : text[m] /= " "
                          /\ (j = Len(text) \/ text[j + 1] = " ")
        nth(k) == CHOOSE i \in starts : Cardinality({j \in starts : j < i}) = k - 1
    IN  [k \in 1 .. Cardinality(starts) |-> SubSeq(text, nth(k), word_end(nth(k)))]

\* " ".join(words)
RECURSIVE join(_)
join(words) ==
    IF words = <<>> THEN <<>>
    ELSE IF Len(words) = 1 THEN Head(words)
    ELSE Head(words) \o <<" ">> \o join(Tail(words))

\* the length of the common run of a[i:ahi] and b[j:bhi] from their starts
RECURSIVE match_length(_, _, _, _, _, _)
match_length(a, b, i, j, ahi, bhi) ==
    IF i < ahi /\ j < bhi /\ a[i + 1] = b[j + 1]
    THEN 1 + match_length(a, b, i + 1, j + 1, ahi, bhi)
    ELSE 0

\* SequenceMatcher.find_longest_match: the longest matching block of
\* a[alo:ahi] and b[blo:bhi]; of the longest, the one that starts earliest in
\* a, and of those the one that starts earliest in b; <<alo, blo, 0>> if none
find_longest_match(a, b, alo, ahi, blo, bhi) ==
    LET starts == {c \in (alo .. ahi - 1) \X (blo .. bhi - 1) :
                        match_length(a, b, c[1], c[2], ahi, bhi) > 0}
        size(c) == match_length(a, b, c[1], c[2], ahi, bhi)
        longest == {c \in starts : \A d \in starts : size(d) <= size(c)}
        best == CHOOSE c \in longest :
                    \A d \in longest :
                        c[1] < d[1] \/ (c[1] = d[1] /\ c[2] <= d[2])
    IN  IF starts = {} THEN <<alo, blo, 0>> ELSE <<best[1], best[2], size(best)>>

\* SequenceMatcher.get_matching_blocks: the longest block, then the blocks to
\* its left and to its right, in increasing order
RECURSIVE matching_blocks(_, _, _, _, _, _)
matching_blocks(a, b, alo, ahi, blo, bhi) ==
    LET m == find_longest_match(a, b, alo, ahi, blo, bhi)
        i == m[1]
        j == m[2]
        k == m[3]
    IN  IF k = 0 THEN <<>>
        ELSE (IF alo < i /\ blo < j
              THEN matching_blocks(a, b, alo, i, blo, j) ELSE <<>>)
             \o <<m>>
             \o (IF i + k < ahi /\ j + k < bhi
                 THEN matching_blocks(a, b, i + k, ahi, j + k, bhi) ELSE <<>>)

get_matching_blocks(a, b) ==
    matching_blocks(a, b, 0, Len(a), 0, Len(b)) \o << <<Len(a), Len(b), 0>> >>

\* SequenceMatcher.get_opcodes: <<tag, i1, i2, j1, j2>>
RECURSIVE opcodes_from(_, _, _, _)
opcodes_from(blocks, n, i, j) ==
    IF n > Len(blocks) THEN <<>>
    ELSE LET ai == blocks[n][1]
             bj == blocks[n][2]
             size == blocks[n][3]
             tag == IF i < ai /\ j < bj THEN "replace"
                    ELSE IF i < ai THEN "delete"
                    ELSE IF j < bj THEN "insert"
                    ELSE ""
         IN  (IF tag /= "" THEN << <<tag, i, ai, j, bj>> >> ELSE <<>>)
             \o (IF size > 0
                 THEN << <<"equal", ai, ai + size, bj, bj + size>> >> ELSE <<>>)
             \o opcodes_from(blocks, n + 1, ai + size, bj + size)

get_opcodes(a, b) == opcodes_from(get_matching_blocks(a, b), 1, 0, 0)

RemovalsCountingReplace(original_words, ops) ==
    Concat([n \in DOMAIN ops |->
                IF ops[n][1] \in {"delete", "replace"}
                THEN Slice(original_words, ops[n][2], ops[n][3]) ELSE <<>>])

\* the words of the delete spans
removals_of(original_words, ops) ==
    Concat([n \in DOMAIN ops |->
                IF ops[n][1] = "delete"
                THEN Slice(original_words, ops[n][2], ops[n][3]) ELSE <<>>])

\* the words of the insert spans
additions_of(edited_words, ops) ==
    Concat([n \in DOMAIN ops |->
                IF ops[n][1] = "insert"
                THEN Slice(edited_words, ops[n][4], ops[n][5]) ELSE <<>>])

\* the replace spans as {from, to}
replacements_of(original_words, edited_words, ops) ==
    Concat([n \in DOMAIN ops |->
                IF ops[n][1] = "replace"
                THEN << [from |-> join(Slice(original_words, ops[n][2], ops[n][3])),
                         to |-> join(Slice(edited_words, ops[n][4], ops[n][5]))] >>
                ELSE <<>>])

analyze_user_edits(original_text, edited_text) ==
    LET original_words == split(original_text)
        edited_words == split(edited_text)
        ops == get_opcodes(original_words, edited_words)
    IN  [removals |-> removals_of(original_words, ops),
         additions |-> additions_of(edited_words, ops),
         replacements |-> replacements_of(original_words, edited_words, ops)]

----------------------------------------------------------------------------
(* Preference learning: app.load_user_preferences,                        *)
(* app.update_user_preferences_with_session_data                          *)

PrefUsers == {"a@x.com", "b@x.com"}

\* the pieces of text from position i on, old replaced by new
RECURSIVE replace_from(_, _, _, _)
replace_from(text, i, old, new) ==
    IF i > Len(text) THEN <<>>
    ELSE (IF text[i] = old THEN new ELSE <<text[i]>>)
            \o replace_from(text, i + 1, old, new)

\* str.replace(old, new) for a one-character old
replace(text, old, new) == replace_from(text, 1, old, new)

\* user_email.replace('@', '_at_').replace('.', '_') + ".json"
preferences_file_of(user_email) ==
    replace(replace(chars(user_email), "@", <<"_", "a", "t", "_">>), ".", <<"_">>)
        \o <<".json">>

\* preferences_file_of, worked out once for the texts of the model
PreferencesFiles == [t \in UserTexts |-> preferences_file_of(t)]

preferences_file(user_email) ==
    IF user_email \in UserTexts THEN PreferencesFiles[user_email]
    ELSE preferences_file_of(user_email)

\* user_email.replace('@', '_at_').replace('.', '_').replace('+', '_plus_'):
\* st.session_state.user_id of the session of user_email
safe_user_id_of(user_email) ==
    replace(replace(replace(chars(user_email), "@", <<"_", "a", "t", "_">>),
                    ".", <<"_">>),
            "+", <<"_", "p", "l", "u", "s", "_">>)

\* safe_user_id_of, worked out once for the texts of the model
SafeUserIds == [t \in UserTexts |-> safe_user_id_of(t)]

safe_user_id(user_email) ==
    IF user_email \in UserTexts THEN SafeUserIds[user_email]
    ELSE safe_user_id_of(user_email)

EditPatternCap == 50

HistoryCap == 20

JobCompanyCap == 100

default_preferences(user_email) ==
    [user_email |-> user_email,
     preferred_highlights |-> <<>>,
     edit_patterns |-> [commonly_removed_words |-> <<>>,
                        commonly_added_phrases |-> <<>>],
     job_application_history |-> <<>>,
     last_updated |-> now,
     usage_count |-> 0]

load_user_preferences(user_email) ==
    Get(preferences, preferences_file(user_email), default_preferences(user_email))

\* s[-n:]
LastN(s, n) == IF Len(s) <= n THEN s ELSE SubSeq(s, Len(s) - n + 1, Len(s))

Range(s) == {s[i] : i \in DOMAIN s}

\* list(set(s)): the distinct elements of s, in an order Python does not fix
ListsOfSet(S) ==
    {f \in [1 .. Cardinality(S) -> S] : \A i, j \in 1 .. Cardinality(S) :
                                            i /= j => f[i] /= f[j]}

\* bound: a set of at most this many words is listed in every order, a
\* larger one in three orders
MaxPermuted == 3

\* the first occurrences of the elements of s, in the order of s
Dedupe(s) ==
    LET firsts == {i \in DOMAIN s : \A j \in 1 .. i - 1 : s[j] /= s[i]}
        nth(k) == CHOOSE i \in firsts : Cardinality({j \in firsts : j < i}) = k - 1
    IN  [k \in 1 .. Cardinality(firsts) |-> s[nth(k)]]

Reverse(s) == [i \in 1 .. Len(s) |-> s[Len(s) + 1 - i]]

\* list(set(s)) of a list s
list_set(s) ==
    IF Cardinality(Range(s)) <= MaxPermuted
    THEN ListsOfSet(Range(s))
    ELSE {Dedupe(s), Reverse(Dedupe(s)), Tail(Dedupe(s)) \o <<Head(Dedupe(s))>>}

UniqueWithoutCut(words) == list_set(words)

\* list(set(words[-50:]))
keep_unique_last(words) == list_set(LastN(words, EditPatternCap))

HistoryWithoutEviction(history, job_entry) == Append(history, job_entry)

\* history.append(job_entry); history = history[-20:]
history_after(history, job_entry) == LastN(Append(history, job_entry), HistoryCap)

\* for highlight in highlights: append it if it is not in the list yet
RECURSIVE merge_highlights(_, _)
merge_highlights(preferred, highlights) ==
    IF highlights = <<>> THEN preferred
    ELSE merge_highlights(
             IF \E i \in DOMAIN preferred : preferred[i] = Head(highlights)
             THEN preferred ELSE Append(preferred, Head(highlights)),
             Tail(highlights))

AnalyzeWhenDifferent(original_letter, edited_letter) ==
    original_letter /= edited_letter

\* if original_letter and edited_letter and original_letter != edited_letter
ShouldAnalyze(original_letter, edited_letter) ==
    /\ original_letter /= <<>>
    /\ edited_letter /= <<>>
    /\ original_letter /= edited_letter

\* job_description[:100] + "..." if len(job_description) > 100 else
\* job_description; a text is modelled by its length
job_company(job_description) ==
    IF job_description.len > JobCompanyCap
    THEN [len |-> JobCompanyCap + 3, ellipsis |-> TRUE]
    ELSE [len |-> job_description.len, ellipsis |-> FALSE]

TotalUsage ==
    LET RECURSIVE Sum(_)
        Sum(K) == IF K = {} THEN 0
                  ELSE LET k == CHOOSE x \in K : TRUE
                       IN  preferences[k].usage_count + Sum(K \ {k})
    IN  Sum(DOMAIN preferences)

\* the effects of the call on the profile file, and the call as the caller
\* sees it
UpdateEffects(user_email, highlights, original_letter, edited_letter, job_description) ==
    LET loaded == load_user_preferences(user_email)
        analyze == ShouldAnalyze(original_letter, edited_letter)
        edit_patterns == analyze_user_edits(original_letter, edited_letter)
        removed == loaded.edit_patterns.commonly_removed_words \o edit_patterns.removals
        added == loaded.edit_patterns.commonly_added_phrases \o edit_patterns.additions
        job_entry == [date |-> now,
                      job_company |-> job_company(job_description),
                      highlights_used |-> highlights,
                      session_id |-> safe_user_id(user_email)]
    IN
    /\ \E removed_list \in (IF analyze THEN keep_unique_last(removed)
                            ELSE {loaded.edit_patterns.commonly_removed_words}) :
       \E added_list \in (IF analyze THEN keep_unique_last(added)
                          ELSE {loaded.edit_patterns.commonly_added_phrases}) :
          preferences' = Put(preferences, preferences_file(user_email),
              [user_email |-> loaded.user_email,
               preferred_highlights |->
                    merge_highlights(loaded.preferred_highlights, highlights),
               edit_patterns |-> [commonly_removed_words |-> removed_list,
                                  commonly_added_phrases |-> added_list],
               job_application_history |->
                    history_after(loaded.job_application_history, job_entry),
               last_updated |-> now,
               usage_count |-> loaded.usage_count + 1])
    /\ ret' = [op |-> "update_user_preferences_with_session_data",
               user |-> user_email, highlights |-> highlights,
               original |-> original_letter, edited |-> edited_letter,
               analyzed |-> analyze]

update_user_preferences_with_session_data(user_email, highlights, original_letter, edited_letter, job_description) ==
    /\ TotalUsage < MaxUpdates
    /\ UpdateEffects(user_email, highlights, original_letter, edited_letter, job_description)
    /\ UNCHANGED <<now, rate_data, audit_log, handlers, usage_data, invited_users, session,
                   issued, recorded, pc, calls>>

----------------------------------------------------------------------------
(* Initial state: no store file exists yet, nobody is signed in *)

NoCall == [op |-> "none"]

Init ==
    /\ now = 0
    /\ rate_data = [a \in RateActions |-> EmptyMap]
    /\ audit_log = <<>>
    /\ handlers = 0
    /\ usage_data = EmptyMap
    /\ invited_users = [k \in {"a@x.com"} |-> UserRecord("active")]
    /\ session = EmptyMap
    /\ preferences = EmptyMap
    /\ issued = {}
    /\ recorded = EmptyMap
    /\ pc = "idle"
    /\ calls = EmptyMap
    /\ ret = NoCall

RateCall ==
    \E u \in RateUsers, c \in RateCalls : check_rate_limit(u, c[1], c[2], c[3])

RateTick == \E t \in RateInstants : Tick(t)

NextRate == RateCall \/ RateTick

SpecRate == Init /\ [][NextRate]_vars

AuthLogin == \E e \in AuthEmails \cup {""} : Login(e)

AuthAdd == \E e \in AuthEmails : AdminAddUser(e)

AuthSave ==
    \E rows \in SUBSET (DOMAIN invited_users) :
        \E status \in [rows -> Statuses] : AdminSaveChanges(rows, status)

AuthTick == \E t \in AuthInstants : Tick(t)

NextAuth == MainRun \/ AuthLogin \/ Logout \/ AuthAdd \/ AuthSave \/ AuthTick

SpecAuth == Init /\ [][NextAuth]_vars

QuotaRecord == \E u \in QuotaUsers : record_cover_letter_generation(u)

QuotaStatus == \E u \in QuotaUsers : DailyStatus(u)

QuotaTick == \E t \in QuotaInstants : Tick(t)

NextQuota == QuotaRecord \/ QuotaStatus \/ QuotaTick

SpecQuota == Init /\ [][NextQuota]_vars

GateDenied == \E u \in QuotaUsers : GenerateDenied(u)

GateBegin == \E u \in QuotaUsers : GenerateBegin(u)

GateEnd == \E o \in GenerationOutcomes : GenerateEnd(o)

NextGate == GateDenied \/ GateBegin \/ GateEnd \/ QuotaTick

SpecGate == Init /\ [][NextGate]_vars

\* the letters of the model, as the characters between and including spaces
T_abc == <<"a", " ", "b", " ", "c">>

T_axc == <<"a", " ", "x", " ", "c">>

T_ac == <<"a", " ", "c">>

T_abcd == <<"a", " ", "b", " ", "c", " ", "d">>

T_ad == <<"a", " ", "d">>

T_thanks_original ==
    <<"Thanks", " ", "for", " ", "considering", " ", "my", " ", "resume", " ",
      "for", " ", "this", " ", "role">>

T_thanks_edited ==
    <<"Thanks", " ", "for", " ", "reviewing", " ", "my", " ", "application", " ",
      "for", " ", "this", " ", "role">>

\* <<original_letter, edited_letter>> of the updates made
LetterPairs ==
    {<<T_abc, T_axc>>, <<T_abc, T_ac>>, <<T_ac, T_axc>>, <<T_abcd, T_ad>>,
     <<T_thanks_original, T_thanks_edited>>,
     <<T_abc, T_abc>>, <<<<>>, T_abc>>, <<T_abc, <<>>>>}

HighlightLists == {<<>>, <<"leadership">>}

JobDescriptions == {[len |-> 40]}

PrefsUpdate ==
    \E u \in PrefUsers, h \in HighlightLists, l \in LetterPairs, j \in JobDescriptions :
        update_user_preferences_with_session_data(u, h, l[1], l[2], j)

NextPrefs == PrefsUpdate

SpecPrefs == Init /\ [][NextPrefs]_vars

VerifyIssue == \E e \in VerifyUsers : IssueToken(e)

VerifyCheck == \E e \in VerifyUsers, v \in VerifyInputs : VerifyCall(e, v)

VerifyTick == \E t \in VerifyInstants : Tick(t)

VerifySetBack == \E t \in VerifyInstants \cup {0} : ClockSetBack(t)

NextVerify == VerifyIssue \/ VerifyCheck \/ VerifyTick \/ VerifySetBack

SpecVerify == Init /\ [][NextVerify]_vars

----------------------------------------------------------------------------
(* The requests of the browser session: one run of main per widget click   *)
(* (app.py:1302-1698), with a resume already processed                     *)

\* bound: audit events recorded before a generation of SpecRequest starts
MaxRequests == 6

\* bound: history entries stored in a run of SpecRequest
MaxSaves == 1

RequestInstants == {43200, 90000}

\* cleaned_response of a generation that returned
GeneratedLetters == {T_abc, <<>>}

\* the text area when "Save Changes" is clicked
EditedLetters == {T_ac}

\* initialize_user_session: the first authenticated run fixes user_id and
\* extracted_email of the session
initialize_user_session(sess) ==
    IF /\ Get(sess, "authenticated", FALSE)
       /\ Get(sess, "user_email", "") /= ""
       /\ "user_id" \notin DOMAIN sess
    THEN Put(Put(sess, "user_id", safe_user_id(sess["user_email"])),
             "extracted_email", sess["user_email"])
    ELSE sess

\* the run passes the authentication gate and the daily-quota gate
GatesPassed ==
    /\ check_authentication_value(session)
    /\ ~QuotaGateClosed(check_daily_cover_letter_limit(
            initialize_user_session(session)["user_id"], DefaultDailyLimit))

\* a run refused at the authentication gate: main returns at once
RequestUnauthenticated(click) ==
    /\ pc = "idle"
    /\ ~check_authentication_value(session)
    /\ session' = check_authentication_session(session)
    /\ ret' = [op |-> "main", click |-> click,
               user |-> Get(session, "user_email", ""),
               value |-> "not_authenticated"]
    /\ UNCHANGED <<now, rate_data, audit_log, handlers, usage_data, invited_users,
                   preferences, issued, recorded, pc, calls>>

\* a run refused at the quota gate: main returns before the generation and
\* before the "Save Changes" section
RequestOverQuota(click) ==
    /\ pc = "idle"
    /\ check_authentication_value(session)
    /\ ~GatesPassed
    /\ session' = initialize_user_session(session)
    /\ ret' = [op |-> "main", click |-> click,
               user |-> initialize_user_session(session)["user_id"],
               value |-> "daily_limit_reached"]
    /\ UNCHANGED <<now, rate_data, audit_log, handlers, usage_data, invited_users,
                   preferences, issued, recorded, pc, calls>>

\* "Generate Cover Letter" is clicked and both gates are passed: the
\* generation call starts
RequestGenerate ==
    /\ pc = "idle"
    /\ GatesPassed
    /\ handlers < MaxRequests
    /\ session' = initialize_user_session(session)
    /\ pc' = <<"generating", initialize_user_session(session)["user_id"]>>
    /\ UNCHANGED <<now, rate_data, audit_log, handlers, usage_data, invited_users,
                   preferences, issued, recorded, ret, calls>>

RecordsAnyOutcome(outcome) == TRUE

\* record_cover_letter_generation is called after chain.invoke returned; the
\* return on missing resume data and the except clause skip it
RecordsGeneration(outcome) == outcome = "generated"

\* the generation call ends: the letter is kept in the session and the
\* generation recorded, or the run ends without either
RequestGenerateEnd(outcome, letter) ==
    /\ pc /= "idle"
    /\ IF RecordsGeneration(outcome)
       THEN /\ RecordEffects(pc[2])
            /\ session' = Put(Put(session, "generated_cover_letter", letter),
                              "original_cover_letter", letter)
       ELSE UNCHANGED <<usage_data, audit_log, handlers, recorded, session>>
    /\ pc' = "idle"
    /\ ret' = [op |-> "main", click |-> "generate", user |-> pc[2],
               value |-> outcome]
    /\ UNCHANGED <<now, rate_data, invited_users, preferences, issued, calls>>

\* the history entries stored in all profiles
TotalHistory ==
    LET RECURSIVE Sum(_)
        Sum(K) == IF K = {} THEN 0
                  ELSE LET k == CHOOSE x \in K : TRUE
                       IN  Len(preferences[k].job_application_history) + Sum(K \ {k})
    IN  Sum(DOMAIN preferences)

\* "Save Changes" is clicked: the section is shown only when the session
\* holds a non-empty generated letter; the edit is learned for
\* extracted_email
RequestSave(edited_cover_letter, current_highlights, job_description) ==
    /\ pc = "idle"
    /\ GatesPassed
    /\ "generated_cover_letter" \in DOMAIN session
    /\ session["generated_cover_letter"] /= <<>>
    /\ TotalHistory < MaxSaves
    /\ UpdateEffects(initialize_user_session(session)["extracted_email"],
                     current_highlights, session["original_cover_letter"],
                     edited_cover_letter, job_description)
    /\ session' = Put(Put(initialize_user_session(session),
                          "generated_cover_letter", edited_cover_letter),
                      "user_preferences",
                      preferences'[preferences_file(
                          initialize_user_session(session)["extracted_email"])])
    /\ UNCHANGED <<now, rate_data, audit_log, handlers, usage_data, invited_users,
                   issued, recorded, pc, calls>>

\* "Reset Learning Data" of the sidebar: the profile is loaded, its
\* usage_count set to 0 and saved; the button precedes the quota gate
RequestResetLearning ==
    /\ pc = "idle"
    /\ check_authentication_value(session)
    /\ preferences' = Put(preferences,
            preferences_file(initialize_user_session(session)["extracted_email"]),
            [load_user_preferences(initialize_user_session(session)["extracted_email"])
                EXCEPT !.usage_count = 0, !.last_updated = now])
    /\ session' = Put(initialize_user_session(session), "user_preferences",
                      preferences'[preferences_file(
                          initialize_user_session(session)["extracted_email"])])
    /\ ret' = [op |-> "main", click |-> "reset_learning",
               user |-> initialize_user_session(session)["extracted_email"],
               value |-> "reset"]
    /\ UNCHANGED <<now, rate_data, audit_log, handlers, usage_data, invited_users,
                   issued, recorded, pc, calls>>

RequestClicks == {"generate", "save"}

ReqLogin == \E e \in {"a@x.com", "b@x.com"} : pc = "idle" /\ Login(e)

ReqLogout == pc = "idle" /\ Logout

ReqUnauthenticated == \E c \in RequestClicks : RequestUnauthenticated(c)

ReqOverQuota == \E c \in RequestClicks : RequestOverQuota(c)

ReqGenerateEnd ==
    \E o \in GenerationOutcomes, l \in GeneratedLetters : RequestGenerateEnd(o, l)

ReqSave ==
    \E e \in EditedLetters, h \in HighlightLists, j \in JobDescriptions :
        RequestSave(e, h, j)

ReqTick == \E t \in RequestInstants : Tick(t)

NextRequest ==
    \/ ReqLogin \/ ReqLogout \/ ReqUnauthenticated \/ ReqOverQuota
    \/ RequestGenerate \/ ReqGenerateEnd \/ ReqSave \/ RequestResetLearning
    \/ ReqTick

SpecRequest == Init /\ [][NextRequest]_vars

----------------------------------------------------------------------------
(* A long series of applications of one user: the k-th "Save Changes" names *)
(* a new strength and repeats the first one, for a job description of 80+k  *)
(* characters; the first letter is edited by removing or adding more words  *)
(* than the profile keeps                                                   *)

\* bound: updates of the profile in a run of SpecCaps
MaxApplications == 51

\* bound: words removed or added by the largest edit
ManyWordsCount == 51

CapsUsers == {"a@x.com"}

Strength(k) == "strength" \o ToString(k)

CapsHighlights(k) == <<Strength(k), Strength(1)>>

CapsJob(k) == [len |-> 80 + k]

T_k == <<"k">>

\* the letter "k w1 w2 ... wn"
ManyWords(n) ==
    [i \in 1 .. 2 * n + 1 |->
        IF i = 1 THEN "k"
        ELSE IF i % 2 = 0 THEN " " ELSE "w" \o ToString((i - 1) \div 2)]

\* <<original_letter, edited_letter>> of the k-th application
CapsLetterPairs(k) ==
    IF k = 1 THEN {<<ManyWords(ManyWordsCount), T_k>>, <<T_k, ManyWords(ManyWordsCount)>>}
    ELSE IF k = 2 THEN {<<T_abc, T_ac>>, <<T_ac, T_axc>>, <<T_abc, T_abc>>}
    ELSE {<<T_abc, T_abc>>}

CapsUpdate(user_email) ==
    /\ load_user_preferences(user_email).usage_count < MaxApplications
    /\ \E l \in CapsLetterPairs(load_user_preferences(user_email).usage_count + 1) :
          UpdateEffects(user_email,
                        CapsHighlights(load_user_preferences(user_email).usage_count + 1),
                        l[1], l[2],
                        CapsJob(load_user_preferences(user_email).usage_count + 1))
    /\ UNCHANGED <<now, rate_data, audit_log, handlers, usage_data, invited_users, session,
                   issued, recorded, pc, calls>>

CapsSave == \E u \in CapsUsers : CapsUpdate(u)

CapsTick == \E t \in {86400} : Tick(t)

NextCaps == CapsSave \/ CapsTick

SpecCaps == Init /\ [][NextCaps]_vars

----------------------------------------------------------------------------
(* Audit statistics: security_utils.log_authentication_attempt,            *)
(* log_file_access, log_directory_access, get_security_stats               *)

MaxEvents == 3       \* audit events recorded in a run of SpecStats

\* the event names get_security_stats looks for
StatsKinds == {"AUTH_SUCCESS", "AUTH_FAILURE", "FILE_ACCESS", "RATE_LIMIT_EXCEEDED"}

\* texts typed into the e-mail field of the login form
StatsEmails == {"a@x.com", "AUTH_SUCCESS", "FILE_ACCESS@x.com"}

\* names of the uploaded files
StatsFiles == {"cv.pdf", "AUTH_FAILURE.pdf"}

\* a text as the pieces it is made of, an event name inside it being one piece
Pieces(text) ==
    CASE text = "FILE_ACCESS@x.com" -> <<"FILE_ACCESS", "@x.com">>
      [] text = "AUTH_FAILURE.pdf" -> <<"AUTH_FAILURE", ".pdf">>
      [] OTHER -> <<text>>

\* the string values of the details of an event, in the order of the keys
DetailPieces(details) ==
    IF "file_path" \in DOMAIN details
    THEN Pieces(details.file_path) \o Pieces(details.action)
    ELSE IF "directory" \in DOMAIN details THEN Pieces(details.directory)
    ELSE IF "action" \in DOMAIN details THEN Pieces(details.action)
    ELSE <<>>

\* json.dumps(log_entry): the line holds the event name, the identity and the
\* details; the timestamp and the keys hold no event name
json_dumps(log_entry) ==
    Pieces(log_entry.event_type) \o Pieces(log_entry.user_email)
        \o DetailPieces(log_entry.details)

\* "KIND" in line
InLine(kind, line) == \E i \in DOMAIN line : line[i] = kind

\* the if / elif chain of the scan: the counter a line adds to
Classify(log_entry) ==
    IF InLine("AUTH_SUCCESS", json_dumps(log_entry)) THEN "successful_logins"
    ELSE IF InLine("AUTH_FAILURE", json_dumps(log_entry)) THEN "failed_logins"
    ELSE IF InLine("FILE_ACCESS", json_dumps(log_entry)) THEN "file_accesses"
    ELSE IF InLine("RATE_LIMIT_EXCEEDED", json_dumps(log_entry))
         THEN "rate_limit_violations"
    ELSE "none"

LinesCounted(log, counter) == Cardinality({i \in DOMAIN log : Classify(log[i]) = counter})

get_security_stats(log) ==
    [total_auth_attempts |-> LinesCounted(log, "successful_logins")
                                + LinesCounted(log, "failed_logins"),
     successful_logins |-> LinesCounted(log, "successful_logins"),
     failed_logins |-> LinesCounted(log, "failed_logins"),
     file_accesses |-> LinesCounted(log, "file_accesses"),
     rate_limit_violations |-> LinesCounted(log, "rate_limit_violations")]

\* the effects of one audit call made by the application
AuditEffects(event_type, user_email, details) ==
    /\ audit_log' = log_security_event(audit_log, event_type, user_email, details)
    /\ handlers' = setup_security_logging(handlers)
    /\ ret' = [op |-> "log_security_event", event_type |-> event_type,
               user |-> user_email]

log_authentication_attempt(email, success) ==
    /\ handlers < MaxEvents
    /\ AuditEffects(IF success THEN "AUTH_SUCCESS" ELSE "AUTH_FAILURE", email,
                    EmptyMap)
    /\ UNCHANGED <<now, rate_data, usage_data, invited_users, session,
                   preferences, issued, recorded, pc, calls>>

log_file_access(user_email, file_path, action) ==
    /\ handlers < MaxEvents
    /\ AuditEffects("FILE_ACCESS", user_email,
                    [file_path |-> file_path, action |-> action])
    /\ UNCHANGED <<now, rate_data, usage_data, invited_users, session,
                   preferences, issued, recorded, pc, calls>>

log_directory_access(user_email, directory) ==
    /\ handlers < MaxEvents
    /\ AuditEffects("DIRECTORY_ACCESS", user_email, [directory |-> directory])
    /\ UNCHANGED <<now, rate_data, usage_data, invited_users, session,
                   preferences, issued, recorded, pc, calls>>

StatsCall ==
    /\ ret' = [op |-> "get_security_stats", value |-> get_security_stats(audit_log)]
    /\ UNCHANGED <<now, rate_data, audit_log, handlers, usage_data, invited_users,
                   session, preferences, issued, recorded, pc, calls>>

StatsAuth == \E email \in StatsEmails, success \in BOOLEAN :
                log_authentication_attempt(email, success)

StatsFile == \E file_path \in StatsFiles : log_file_access("a@x.com", file_path, "upload")

StatsDirectory == log_directory_access("a@x.com", "./faiss_db_multiuser/user_a_at_x_com")

StatsRate == \E c \in RateCalls : check_rate_limit("a@x.com", c[1], c[2], c[3])

NextStats == StatsAuth \/ StatsFile \/ StatsDirectory \/ StatsRate \/ StatsCall

SpecStats == Init /\ [][NextStats]_vars

----------------------------------------------------------------------------
(* The rate limiter over a store file that can fail: the try / except      *)
(* blocks of security_utils.check_rate_limit around json.load and json.dump *)

\* a store file whose text json.load rejects (an empty or cut-off file)
Malformed == [malformed |-> TRUE]

\* what open(rate_limit_file, 'w') and json.dump can do: write the file, be
\* refused before the file is touched, or fail after the file was truncated
WriteOutcomes == {"written", "refused", "truncated"}

StorageInstants == {30, 90}

\* rate_data = {} ; try: rate_data = json.load(f) ; except Exception: rate_data = {}
load_rate_data(file) == IF file = Malformed THEN EmptyMap ELSE file

loaded_requests(user_email, action, time_window_minutes) ==
    KeepNewer(Get(load_rate_data(rate_data[action]), user_email, <<>>),
              cutoff_time(time_window_minutes))

LoadedAdmits(user_email, action, max_requests, time_window_minutes) ==
    ~LimitExceeded(Len(loaded_requests(user_email, action, time_window_minutes)),
                   max_requests)

\* try: json.dump(rate_data, f) ; except Exception: logging.error(...)
dump_rate_data(file, data, write) ==
    CASE write = "written" -> data
      [] write = "refused" -> file
      [] OTHER -> Malformed

\* return False after the log call, or return True after the save attempt
check_rate_limit_stored(user_email, action, max_requests, time_window_minutes, write) ==
    /\ handlers < MaxLog
    /\ rate_data' =
         IF LoadedAdmits(user_email, action, max_requests, time_window_minutes)
         THEN [rate_data EXCEPT ![action] =
                 dump_rate_data(@,
                    Put(load_rate_data(@), user_email,
                        Append(loaded_requests(user_email, action,
                                               time_window_minutes), now)),
                    write)]
         ELSE rate_data
    /\ audit_log' =
         IF LoadedAdmits(user_email, action, max_requests, time_window_minutes)
         THEN audit_log
         ELSE log_security_event(audit_log, "RATE_LIMIT_EXCEEDED", user_email,
                 [action |-> action,
                  request_count |-> Len(loaded_requests(user_email, action,
                                                        time_window_minutes)),
                  max_allowed |-> max_requests])
    /\ handlers' =
         IF LoadedAdmits(user_email, action, max_requests, time_window_minutes)
         THEN handlers
         ELSE setup_security_logging(handlers)
    /\ ret' = [op |-> "check_rate_limit", user |-> user_email, action |-> action,
               max_requests |-> max_requests, window |-> time_window_minutes,
               value |-> LoadedAdmits(user_email, action, max_requests,
                                      time_window_minutes),
               write |-> IF LoadedAdmits(user_email, action, max_requests,
                                         time_window_minutes)
                         THEN write ELSE "none"]
    /\ UNCHANGED <<now, usage_data, invited_users, session, preferences, issued,
                   recorded, pc, calls>>

StorageCall ==
    \E u \in RateUsers, c \in RateCalls, write \in WriteOutcomes :
        check_rate_limit_stored(u, c[1], c[2], c[3], write)

StorageTick == \E t \in StorageInstants : Tick(t)

NextStorage == StorageCall \/ StorageTick

SpecStorage == Init /\ [][NextStorage]_vars

----------------------------------------------------------------------------
(* Repeated submissions of the authentication form                         *)
(* (app.show_authentication_page, 5 attempts per 15 minutes)               *)

MaxAttempts == 6     \* forms submitted in a run of SpecLogin

LoginInstants == {600, 1000}

LoginAttempt(email) ==
    /\ handlers < MaxAttempts
    /\ LoginEffects(email)
    /\ UNCHANGED <<now, usage_data, invited_users, preferences, recorded, pc, calls>>

LoginSubmit == \E e \in AuthEmails : LoginAttempt(e)

LoginTick == \E t \in LoginInstants : Tick(t)

NextLogin == LoginSubmit \/ Logout \/ LoginTick

SpecLogin == Init /\ [][NextLogin]_vars

----------------------------------------------------------------------------
(* Lookups in a roster written by hand: the keys of invited_users.json and *)
(* of the secrets are kept as the administrator typed them                 *)

LookupKeys == {"a@x.com", "A@x.com", "B@x.com"}

LookupQueries == {"a@x.com", "A@x.com", "b@x.com", "B@x.com", "c@x.com"}

LookupStores == UNION {[keys -> {UserRecord(s) : s \in Statuses}] : keys \in SUBSET LookupKeys}

ExactKey(order, email) ==
    IF \E i \in DOMAIN order : order[i] = email
    THEN invited_users[email]
    ELSE NoneValue

\* for user_email, user_info in invited_users.items(): the record of the first
\* key, in the order of the dict, that equals email after lower(); else None
get_user_info_in(order, email) ==
    IF \E i \in DOMAIN order : lower(order[i]) = lower(email)
    THEN invited_users[order[CHOOSE i \in DOMAIN order :
                                /\ lower(order[i]) = lower(email)
                                /\ \A j \in 1 .. i - 1 : lower(order[j]) /= lower(email)]]
    ELSE NoneValue

\* the roster file or the secrets are replaced
RosterWritten(store) ==
    /\ invited_users' = store
    /\ invited_users' /= invited_users
    /\ ret' = [op |-> "roster_written"]
    /\ UNCHANGED <<now, rate_data, audit_log, handlers, usage_data, session,
                   preferences, issued, recorded, pc, calls>>

\* is_user_invited(email) and get_user_info(email) on the roster, whose dict
\* lists its keys in the given order
LookupCall(email, order) ==
    /\ ret' = [op |-> "get_user_info", user |-> email, order |-> order,
               invited |-> is_user_invited(email),
               info |-> get_user_info_in(order, email)]
    /\ UNCHANGED <<now, rate_data, audit_log, handlers, usage_data, invited_users,
                   session, preferences, issued, recorded, pc, calls>>

LookupWrite == \E store \in LookupStores : RosterWritten(store)

LookupQuery ==
    \E email \in LookupQueries, order \in ListsOfSet(DOMAIN invited_users) :
        LookupCall(email, order)

NextLookup == LookupWrite \/ LookupQuery

SpecLookup == Init /\ [][NextLookup]_vars

----------------------------------------------------------------------------
(* Admin reset of a daily count: security_utils.reset_user_daily_limit     *)

MaxResetEvents == 4  \* audit events recorded in a run of SpecReset

ResetInstants == {43200, 86400}

ResetWholeDay(user_email) ==
    IF current_date \in DOMAIN usage_data
    THEN Put(usage_data, current_date, EmptyMap)
    ELSE usage_data

\* del usage_data[current_date][user_email], if both keys are present
usage_data_after_reset(user_email) ==
    IF current_date \in DOMAIN usage_data
    THEN Put(usage_data, current_date, Remove(usage_data[current_date], {user_email}))
    ELSE usage_data

\* saved is whether open(usage_file, 'w') and json.dump succeed; if they raise,
\* the except returns False before the log call
reset_user_daily_limit(user_email, saved) ==
    /\ handlers < MaxResetEvents
    /\ usage_data' = IF saved THEN usage_data_after_reset(user_email) ELSE usage_data
    /\ audit_log' = IF saved
                    THEN log_security_event(audit_log, "ADMIN_LIMIT_RESET", user_email,
                            [date |-> current_date, admin_action |-> TRUE])
                    ELSE audit_log
    /\ handlers' = IF saved THEN setup_security_logging(handlers) ELSE handlers
    /\ ret' = [op |-> "reset_user_daily_limit", user |-> user_email,
               used_before |-> today_usage(user_email), value |-> saved]
    /\ UNCHANGED <<now, rate_data, invited_users, session, preferences, issued,
                   recorded, pc, calls>>

ResetCall == \E u \in QuotaUsers, saved \in BOOLEAN : reset_user_daily_limit(u, saved)

ResetRecord ==
    \E u \in QuotaUsers : handlers < MaxResetEvents /\ record_cover_letter_generation(u)

ResetTick == \E t \in ResetInstants : Tick(t)

NextReset == ResetRecord \/ QuotaStatus \/ ResetCall \/ ResetTick

SpecReset == Init /\ [][NextReset]_vars

----------------------------------------------------------------------------
(* Concurrent sessions: Streamlit runs the script of every browser session *)
(* in a thread of its own, and check_rate_limit and                        *)
(* record_cover_letter_generation read the store file, change their copy   *)
(* and write the whole file back without any lock.  A call is two steps:   *)
(* the load, and the rest of the function.                                 *)

MaxRaceEvents == 3   \* audit events recorded in a run of SpecRace

MaxRuns == 3         \* script runs of SpecRace, each making one call

RaceSessions == 1 .. MaxRuns

RaceUsers == {"a@x.com", "b@x.com"}

\* the calls made: <<action, max_requests, time_window_minutes>>
RaceCalls == {<<"authentication", 1, 1>>, <<"authentication", 2, 1>>}

RaceInstants == {45}

\* the script run has not made its call yet
Free(s) == s \notin DOMAIN calls

InCall(s, op) ==
    IF s \in DOMAIN calls THEN calls[s].at = "loaded" /\ calls[s].op = op ELSE FALSE

\* check_rate_limit, lines 91-101: current_time is taken and the file is loaded
RateLoad(s, user_email, action, max_requests, time_window_minutes) ==
    /\ Free(s)
    /\ calls' = Put(calls, s,
            [op |-> "check_rate_limit", at |-> "loaded", user |-> user_email,
             action |-> action, max_requests |-> max_requests,
             window |-> time_window_minutes, current_time |-> now,
             loaded |-> load_rate_data(rate_data[action]), value |-> FALSE])
    /\ UNCHANGED <<now, rate_data, audit_log, handlers, usage_data, invited_users,
                   session, preferences, issued, recorded, pc, ret>>

\* the requests of the call's user in its copy, after the cleaning
call_requests(c) ==
    KeepNewer(Get(c.loaded, c.user, <<>>), c.current_time - (c.window * 60))

CallAdmits(c) == ~LimitExceeded(Len(call_requests(c)), c.max_requests)

RateFileMerged(c) ==
    Put(rate_data[c.action], c.user,
        Append(KeepNewer(Get(rate_data[c.action], c.user, <<>>),
                         c.current_time - (c.window * 60)),
               c.current_time))

\* rate_data[user_email] = user_requests ; json.dump(rate_data, f): the file
\* becomes the copy loaded by the call, with the user's new window
RateFileSaved(c) == Put(c.loaded, c.user, Append(call_requests(c), c.current_time))

\* check_rate_limit, lines 103-128
RateFinish(s) ==
    /\ InCall(s, "check_rate_limit")
    /\ IF CallAdmits(calls[s]) THEN TRUE ELSE handlers < MaxRaceEvents
    /\ rate_data' = IF CallAdmits(calls[s])
                    THEN [rate_data EXCEPT ![calls[s].action] = RateFileSaved(calls[s])]
                    ELSE rate_data
    /\ audit_log' =
         IF CallAdmits(calls[s]) THEN audit_log
         ELSE log_security_event(audit_log, "RATE_LIMIT_EXCEEDED", calls[s].user,
                 [action |-> calls[s].action,
                  request_count |-> Len(call_requests(calls[s])),
                  max_allowed |-> calls[s].max_requests])
    /\ handlers' = IF CallAdmits(calls[s]) THEN handlers
                   ELSE setup_security_logging(handlers)
    /\ calls' = [calls EXCEPT ![s].at = "done", ![s].value = CallAdmits(calls[s])]
    /\ ret' = [op |-> "check_rate_limit", user |-> calls[s].user,
               action |-> calls[s].action, max_requests |-> calls[s].max_requests,
               window |-> calls[s].window, value |-> CallAdmits(calls[s])]
    /\ UNCHANGED <<now, usage_data, invited_users, session, preferences, issued,
                   recorded, pc>>

\* record_cover_letter_generation, lines 220-229: the date is taken and the
\* file is loaded
RecordLoad(s, user_email) ==
    /\ Free(s)
    /\ calls' = Put(calls, s,
            [op |-> "record_cover_letter_generation", at |-> "loaded",
             user |-> user_email, current_date |-> current_date,
             loaded |-> usage_data, value |-> FALSE])
    /\ UNCHANGED <<now, rate_data, audit_log, handlers, usage_data, invited_users,
                   session, preferences, issued, recorded, pc, ret>>

\* the count of the call's user in its copy
call_count(c) == Get(Get(c.loaded, c.current_date, EmptyMap), c.user, 0)

\* json.dump(usage_data, f): the file becomes the copy loaded by the call, with
\* the user's count incremented
UsageFileSaved(c) ==
    Put(c.loaded, c.current_date,
        Put(Get(c.loaded, c.current_date, EmptyMap), c.user, Increment(call_count(c))))

\* record_cover_letter_generation, lines 231-252
RecordFinish(s) ==
    /\ InCall(s, "record_cover_letter_generation")
    /\ handlers < MaxRaceEvents
    /\ usage_data' = UsageFileSaved(calls[s])
    /\ audit_log' = log_security_event(audit_log, "COVER_LETTER_GENERATED",
            calls[s].user,
            [daily_count |-> Increment(call_count(calls[s])),
             date |-> calls[s].current_date])
    /\ handlers' = setup_security_logging(handlers)
    /\ recorded' = Put(recorded, calls[s].user,
            [date |-> calls[s].current_date,
             count |-> IF calls[s].user \in DOMAIN recorded
                          /\ recorded[calls[s].user].date = calls[s].current_date
                       THEN recorded[calls[s].user].count + 1 ELSE 1])
    /\ calls' = [calls EXCEPT ![s].at = "done", ![s].value = TRUE]
    /\ ret' = [op |-> "record_cover_letter_generation", user |-> calls[s].user,
               value |-> TRUE]
    /\ UNCHANGED <<now, rate_data, invited_users, session, preferences, issued, pc>>

RaceRateLoad ==
    \E s \in RaceSessions, u \in RaceUsers, c \in RaceCalls :
        RateLoad(s, u, c[1], c[2], c[3])

RaceRateFinish == \E s \in RaceSessions : RateFinish(s)

RaceRecordLoad == \E s \in RaceSessions, u \in RaceUsers : RecordLoad(s, u)

RaceRecordFinish == \E s \in RaceSessions : RecordFinish(s)

RaceTick == \E t \in RaceInstants : Tick(t)

NextRace ==
    RaceRateLoad \/ RaceRateFinish \/ RaceRecordLoad \/ RaceRecordFinish \/ RaceTick

SpecRace == Init /\ [][NextRace]_vars

----------------------------------------------------------------------------
(* Storage keys of the identities of one browser session: the user_id of   *)
(* app.initialize_user_session, app.get_user_directories and the key of    *)
(* the daily count                                                         *)

KeysEmails == {"a.b@x.com", "a_b@x.com", "b@x.com"}

IdChars == {"a", "b", "c", "x", "A", "B", "com", "t", "p", "l", "u", "s", "_", ".", "-"}

\* re.sub(r'[^a-zA-Z0-9_.-]', '_', str(user_id))
sanitize_id(user_id) ==
    [i \in DOMAIN user_id |-> IF user_id[i] \in IdChars THEN user_id[i] ELSE "_"]

\* the two directories of a user_id that passed the checks
user_directories(user_id) ==
    <<<<"./faiss_db_multiuser/user_">> \o sanitize_id(user_id),
      <<"./uploads/user_">> \o sanitize_id(user_id)>>

\* get_user_directories(user_id) in the session sess: ValueError unless the
\* user_id is the one of the authenticated address
get_user_directories(sess, user_id) ==
    IF Get(sess, "authenticated", FALSE)
       /\ user_id /= safe_user_id(Get(sess, "user_email", ""))
    THEN Raised("ValueError")
    ELSE Returned(user_directories(user_id))

\* an authenticated run of main that looks for the resume data of the session:
\* check_user_has_resume_data(st.session_state.user_id)
KeysDirectories ==
    /\ pc = "idle"
    /\ check_authentication_value(session)
    /\ handlers < MaxRequests
    /\ session' = initialize_user_session(session)
    /\ IF get_user_directories(session', session'["user_id"]).raised
       THEN UNCHANGED <<audit_log, handlers>>
       ELSE /\ audit_log' = log_security_event(audit_log, "DIRECTORY_ACCESS",
                    session["user_email"],
                    [directory |-> user_directories(session'["user_id"])[1]])
            /\ handlers' = setup_security_logging(handlers)
    /\ ret' = [op |-> "get_user_directories", user |-> session["user_email"],
               user_id |-> session'["user_id"],
               result |-> get_user_directories(session', session'["user_id"])]
    /\ UNCHANGED <<now, rate_data, usage_data, invited_users, preferences, issued,
                   recorded, pc, calls>>

KeysAdd == \E e \in KeysEmails : AdminAddUser(e)

KeysLogin == \E e \in KeysEmails : pc = "idle" /\ LoginAttempt(e)

KeysGenerateEnd == RequestGenerateEnd("generated", T_abc)

NextKeys ==
    \/ KeysAdd \/ KeysLogin \/ ReqLogout \/ KeysDirectories
    \/ RequestGenerate \/ KeysGenerateEnd

SpecKeys == Init /\ [][NextKeys]_vars

----------------------------------------------------------------------------
(* Properties of the rate limiter *)

\* a step of SpecRate that is a check_rate_limit call (it changes the store or
\* the log; a clock step changes neither)
RateCallStep ==
    /\ ret'.op = "check_rate_limit"
    /\ <<rate_data, audit_log>>' /= <<rate_data, audit_log>>

\* the timestamps stored for the call's user and action before the call
StoredBefore == Get(rate_data[ret'.action], ret'.user, <<>>)

StoredAfter == Get(rate_data'[ret'.action], ret'.user, <<>>)

\* how many of them are newer than now - W
NewerBefore ==
    Cardinality({i \in DOMAIN StoredBefore :
                    StoredBefore[i] > now - ret'.window * 60})

\* C1: a call is admitted (returns True and appends now) exactly when fewer
\* than N stored timestamps of that identity and action are newer than
\* now - W; so a call that finds N timestamps inside W is rejected, and one
\* made once W has elapsed since the oldest of at most N recorded timestamps
\* is admitted.
C1_SlidingWindowAdmission ==
    [][RateCallStep =>
        /\ ret'.value <=> (NewerBefore < ret'.max_requests)
        /\ ret'.value =>
              /\ Len(StoredAfter) = NewerBefore + 1
              /\ StoredAfter[Len(StoredAfter)] = now
        /\ (/\ Len(StoredBefore) >= ret'.max_requests
            /\ \A i \in DOMAIN StoredBefore :
                  now - StoredBefore[i] < ret'.window * 60) => ~ret'.value
        /\ (/\ StoredBefore /= <<>>
            /\ Len(StoredBefore) <= ret'.max_requests
            /\ now - StoredBefore[1] >= ret'.window * 60) => ret'.value
      ]_vars

\* C1 witness: an attempt of a user was rejected for the limit, and a later
\* attempt of that user on that action, made after the window of that
\* rejection has passed, is admitted and stored
C1_Witness ==
    /\ ret.op = "check_rate_limit"
    /\ ret.value
    /\ \E i \in DOMAIN audit_log :
          /\ audit_log[i].event_type = "RATE_LIMIT_EXCEEDED"
          /\ audit_log[i].user_email = ret.user
          /\ audit_log[i].details.action = ret.action
          /\ audit_log[i].details.max_allowed = ret.max_requests
    /\ rate_data[ret.action][ret.user] = <<now>>

\* C10: a rejected call leaves the rate-limit store as it was and appends one
\* RATE_LIMIT_EXCEEDED line for the caller to the audit log; an admitted call
\* appends no line.
C10_RejectionFrame ==
    [][RateCallStep =>
        IF ret'.value
        THEN audit_log' = audit_log
        ELSE /\ rate_data' = rate_data
             /\ Len(audit_log') = Len(audit_log) + 1
             /\ SubSeq(audit_log', 1, Len(audit_log)) = audit_log
             /\ audit_log'[Len(audit_log')].event_type = "RATE_LIMIT_EXCEEDED"
             /\ audit_log'[Len(audit_log')].user_email = ret'.user
      ]_vars

\* C10 witness: a call was rejected while the user's stored window still held
\* a timestamp that the call's pruning drops
C10_Witness ==
    /\ ret.op = "check_rate_limit"
    /\ ~ret.value
    /\ audit_log /= <<>>
    /\ audit_log[Len(audit_log)].event_type = "RATE_LIMIT_EXCEEDED"
    /\ \E i \in DOMAIN rate_data[ret.action][ret.user] :
          rate_data[ret.action][ret.user][i] <= now - ret.window * 60

----------------------------------------------------------------------------
(* Properties of the session tokens and of the authentication gate *)

\* C2: a credential issued for identity A fails verify_session_token for every
\* identity B different from A, at any time.
C2_TokenBoundToIdentity ==
    \A i \in issued : \A B \in AuthEmails :
        B /= i.email => ~verify_session_token(B, i.token)

\* C2 witness: two identities hold credentials that verify for their owners
C2_Witness ==
    \E i, j \in issued :
        /\ i.email /= j.email
        /\ verify_session_token(i.email, i.token)
        /\ verify_session_token(j.email, j.token)

\* C3: a credential issued at t for A verifies for A at every time with
\* now - t <= sessionTimeout (24h) and fails at every time with
\* now - t > sessionTimeout; once it has failed it never verifies again as
\* time advances.
C3_SessionExpiry ==
    [][\A i \in issued' :
          /\ (verify_session_token(i.email, i.token))' <=>
                (now' - i.token[2] <= 24 * 3600)
          /\ (i \in issued /\ ~verify_session_token(i.email, i.token))
                => ~(verify_session_token(i.email, i.token))'
      ]_vars

\* C3 witness: one credential is exactly sessionTimeout old and verifies while
\* an older one has expired
C3_Witness ==
    \E i, j \in issued :
        /\ now - i.token[2] = 24 * 3600
        /\ verify_session_token(i.email, i.token)
        /\ now - j.token[2] > 24 * 3600
        /\ ~verify_session_token(j.email, j.token)

\* an identity is present in the invitation store (keys compare up to case)
InStore(e) == \E k \in DOMAIN invited_users : lower(k) = lower(e)

\* the credentials that may be presented: every credential the service has
\* issued, one signed with another key, and one without a separator
PresentedTokens ==
    {i.token : i \in issued}
    \cup {<<hmac_sha256("another-key", token_data(e, now)), now>> : e \in AuthEmails}
    \cup {<<>>}

\* correctly signed credentials for any identity and past instant, issued or not
SignedTokens ==
    {create_session_token_at(e, t) :
        e \in AuthEmails, t \in {t0 \in AuthInstants \cup {0} : t0 <= now}}

\* C4 as claimed: for every identity not in the invitation store
\* is_user_invited is false and verify_session_token never succeeds, whatever
\* credential is presented.
C4_VerifyDeniesUninvited ==
    \A e \in AuthEmails :
        ~InStore(e) =>
            /\ ~is_user_invited(e)
            /\ \A tok \in PresentedTokens : ~verify_session_token(e, tok)

\* C4 as amended: for every identity not in the invitation store
\* is_user_invited is false and check_authentication never succeeds, whatever
\* credential the session holds; verify_session_token alone does not consult
\* the store.
C4_GateDeniesUninvited ==
    /\ \A e \in AuthEmails :
        ~InStore(e) =>
            /\ ~is_user_invited(e)
            /\ \A tok \in PresentedTokens \cup SignedTokens :
                 ~check_authentication_value(
                     [authenticated |-> TRUE, user_email |-> e,
                      session_token |-> tok])
    /\ ("user_email" \in DOMAIN session /\ ~InStore(session["user_email"]))
            => ~check_authentication_value(session)

\* C4 witness: the gate has just refused, and cleared the flag of, a session
\* whose identity left the store while its credential still verifies
C4_Witness ==
    /\ ret.op = "check_authentication"
    /\ ~ret.value
    /\ "user_email" \in DOMAIN session
    /\ ~InStore(session["user_email"])
    /\ session["authenticated"] = FALSE
    /\ verify_session_token(session["user_email"], session["session_token"])

----------------------------------------------------------------------------
(* Properties of the daily quota tracker *)

StatusOf(u) == check_daily_cover_letter_limit(u, DefaultDailyLimit)

\* a step of SpecQuota that is a record_cover_letter_generation call
RecordStep ==
    /\ ret'.op = "record_cover_letter_generation"
    /\ audit_log' /= audit_log

\* C5: each record call for an identity on a date raises the used_today that
\* the status call reports for it by exactly one, also above the daily limit,
\* so K calls from a count of c give c + K (K being the records of that date
\* when the date began at 0); remaining is max(0, limit - used_today).
C5_DailyCount ==
    [][RecordStep =>
        \A u \in QuotaUsers :
             /\ u = ret'.user =>
                  /\ StatusOf(u)'.used_today = StatusOf(u).used_today + 1
                  /\ StatusOf(u)'.used_today = recorded'[u].count
             /\ u /= ret'.user =>
                  StatusOf(u)'.used_today = StatusOf(u).used_today
             /\ StatusOf(u)'.remaining + StatusOf(u)'.used_today
                  = Max(DefaultDailyLimit, StatusOf(u)'.used_today)
             /\ StatusOf(u)'.remaining >= 0
      ]_vars

\* C5 witness: records went on above the limit and the status reports them all
C5_Witness ==
    /\ ret.op = "record_cover_letter_generation"
    /\ StatusOf(ret.user).used_today = DefaultDailyLimit + 2
    /\ StatusOf(ret.user).remaining = 0
    /\ ~StatusOf(ret.user).allowed

\* C6: whatever count an identity reached on date d, a status call on a later
\* date, before any record of that identity on that date, reports
\* used_today = 0 and remaining = limit; nothing was reset explicitly.
C6_DayRollover ==
    \A u \in DOMAIN recorded :
        recorded[u].date < current_date =>
            /\ StatusOf(u).used_today = 0
            /\ StatusOf(u).remaining = DefaultDailyLimit
            /\ StatusOf(u).allowed

\* C6 witness: the status call of an identity that went above the limit the
\* day before has just reported 0, the old date still being in the store
C6_Witness ==
    /\ ret.op = "check_daily_cover_letter_limit"
    /\ ret.user \in DOMAIN recorded
    /\ recorded[ret.user].date < current_date
    /\ recorded[ret.user].count > DefaultDailyLimit
    /\ usage_data[recorded[ret.user].date][ret.user] = recorded[ret.user].count
    /\ ret.value.used_today = 0

\* C7: when the requests are handled one at a time and every record follows
\* a status call of the same run that reported remaining > 0, the used_today
\* of an identity never exceeds the daily limit.
C7_QuotaBound ==
    \A u \in QuotaUsers : StatusOf(u).used_today <= DefaultDailyLimit

\* C7 witness: an identity at the limit has just been turned away by the gate
C7_Witness ==
    /\ ret.op = "generate"
    /\ ret.value = "daily_limit_reached"
    /\ StatusOf(ret.user).used_today = DefaultDailyLimit
    /\ recorded[ret.user] = [date |-> current_date, count |-> DefaultDailyLimit]

----------------------------------------------------------------------------
(* Properties of the preference learning engine *)

\* a step that is an update_user_preferences_with_session_data call
UpdateStep ==
    /\ ret'.op = "update_user_preferences_with_session_data"
    /\ preferences' /= preferences

RemovedWords(u) == Range(load_user_preferences(u).edit_patterns.commonly_removed_words)

AddedPhrases(u) == Range(load_user_preferences(u).edit_patterns.commonly_added_phrases)

IsEdit(call, original, edited) == call.original = original /\ call.edited = edited

\* C8 as claimed: updating with "a b c" edited to "a x c" leaves removedWords
\* containing b and addedPhrases containing x, and the "Thanks for considering
\* my resume ..." edit leaves removedWords containing considering and resume
\* and addedPhrases containing reviewing and application.
C8_ReplacedWordsLearned ==
    [][\A u \in PrefUsers : (UpdateStep /\ u = ret'.user) =>
        /\ IsEdit(ret', T_abc, T_axc) =>
              /\ <<"b">> \in RemovedWords(u)'
              /\ <<"x">> \in AddedPhrases(u)'
        /\ IsEdit(ret', T_thanks_original, T_thanks_edited) =>
              /\ {<<"considering">>, <<"resume">>} \subseteq RemovedWords(u)'
              /\ {<<"reviewing">>, <<"application">>} \subseteq AddedPhrases(u)'
      ]_vars

\* C8 as amended: "a b c" edited to "a x c" is one replace span from b to x,
\* and the "Thanks ..." edit is two replace spans (considering to reviewing,
\* resume to application); replace spans are not stored, so removedWords and
\* addedPhrases hold the same words as before the update.  Only delete and
\* insert spans are learned: "a b c" edited to "a c" leaves removedWords
\* containing b, and "a c" edited to "a x c" leaves addedPhrases containing x.
C8_ReplaceSpansNotLearned ==
    [][\A u \in PrefUsers : (UpdateStep /\ u = ret'.user) =>
        /\ IsEdit(ret', T_abc, T_axc) =>
              /\ analyze_user_edits(T_abc, T_axc) =
                    [removals |-> <<>>, additions |-> <<>>,
                     replacements |-> << [from |-> <<"b">>, to |-> <<"x">>] >>]
              /\ RemovedWords(u)' = RemovedWords(u)
              /\ AddedPhrases(u)' = AddedPhrases(u)
        /\ IsEdit(ret', T_thanks_original, T_thanks_edited) =>
              /\ analyze_user_edits(T_thanks_original, T_thanks_edited) =
                    [removals |-> <<>>, additions |-> <<>>,
                     replacements |->
                        << [from |-> <<"considering">>, to |-> <<"reviewing">>],
                           [from |-> <<"resume">>, to |-> <<"application">>] >>]
              /\ RemovedWords(u)' = RemovedWords(u)
              /\ AddedPhrases(u)' = AddedPhrases(u)
        /\ IsEdit(ret', T_abc, T_ac) =>
              /\ <<"b">> \in RemovedWords(u)'
              /\ AddedPhrases(u)' = AddedPhrases(u)
        /\ IsEdit(ret', T_ac, T_axc) =>
              /\ <<"x">> \in AddedPhrases(u)'
              /\ RemovedWords(u)' = RemovedWords(u)
      ]_vars

\* C8 witness: the "a b c" to "a x c" edit has been analysed for a profile
\* that was updated before, and neither b nor x was learned
C8_Witness ==
    /\ ret.op = "update_user_preferences_with_session_data"
    /\ IsEdit(ret, T_abc, T_axc)
    /\ ret.analyzed
    /\ load_user_preferences(ret.user).usage_count = 2
    /\ <<"b">> \notin RemovedWords(ret.user)
    /\ <<"x">> \notin AddedPhrases(ret.user)

\* the update has nothing to diff: the texts are identical or one is empty
NothingToDiff(call) ==
    call.original = call.edited \/ call.original = <<>> \/ call.edited = <<>>

\* C9 as claimed: with identical texts, or one of them empty, no diff is
\* computed and preferredHighlights, removedWords, addedPhrases and usageCount
\* keep their previous values.
C9_NoOpKeepsProfile ==
    [][\A u \in PrefUsers : (UpdateStep /\ u = ret'.user /\ NothingToDiff(ret')) =>
        /\ ~ret'.analyzed
        /\ load_user_preferences(u)'.edit_patterns
              = load_user_preferences(u).edit_patterns
        /\ load_user_preferences(u)'.preferred_highlights
              = load_user_preferences(u).preferred_highlights
        /\ load_user_preferences(u)'.usage_count
              = load_user_preferences(u).usage_count
      ]_vars

\* C9 as amended: with identical texts, or one of them empty, no diff is
\* computed and removedWords and addedPhrases keep their previous values; the
\* call still appends to preferredHighlights the passed highlights it does
\* not hold yet, appends the history entry and raises usageCount by one.
C9_NoOpKeepsEditPatterns ==
    [][\A u \in PrefUsers : (UpdateStep /\ u = ret'.user /\ NothingToDiff(ret')) =>
        /\ ~ret'.analyzed
        /\ load_user_preferences(u)'.edit_patterns
              = load_user_preferences(u).edit_patterns
        /\ load_user_preferences(u)'.usage_count
              = load_user_preferences(u).usage_count + 1
        /\ Range(load_user_preferences(u)'.preferred_highlights)
              = Range(load_user_preferences(u).preferred_highlights)
                    \cup Range(ret'.highlights)
        /\ Len(load_user_preferences(u)'.job_application_history)
              = Len(load_user_preferences(u).job_application_history) + 1
      ]_vars

\* C9 witness: an update with identical texts on a profile that holds learned
\* words has kept them, added a highlight and counted the use
C9_Witness ==
    /\ ret.op = "update_user_preferences_with_session_data"
    /\ ret.original = ret.edited
    /\ ret.original /= <<>>
    /\ ~ret.analyzed
    /\ Cardinality(RemovedWords(ret.user)) = 2
    /\ load_user_preferences(ret.user).preferred_highlights = <<"leadership">>
    /\ ret.highlights = <<"leadership">>
    /\ load_user_preferences(ret.user).usage_count = 2
    /\ Len(load_user_preferences(ret.user).job_application_history) = 2
    /\ load_user_preferences(ret.user).job_application_history[1].highlights_used = <<>>

----------------------------------------------------------------------------
(* Properties of verify_session_token as its caller sees it *)

\* the presented value is a string of the form signature:timestamp
WellFormed(token) ==
    /\ token.type = "str"
    /\ Len(token.pieces) = 2
    /\ token.pieces[2] \in Nat

SignatureMatches(email, token) ==
    token.pieces[1] = hmac_sha256(secret_key, token_data(email, token.pieces[2]))

\* C11: verify_session_token is a pure boolean decision: for every credential
\* that is malformed (no ':' separator, unparseable timestamp, empty string,
\* non-string value) or whose signature does not match, it returns False and
\* never raises an exception to the caller.
C11_VerifyNeverRaises ==
    ret.op = "verify_session_token" =>
        /\ ~ret.result.raised
        /\ ret.result.value \in BOOLEAN
        /\ (~WellFormed(ret.token) \/ ~SignatureMatches(ret.user, ret.token))
              => ret.result = Returned(FALSE)

\* C11 witness: a credential whose signature piece was issued to the identity
\* but whose timestamp does not parse has been presented and refused
C11_Witness ==
    /\ ret.op = "verify_session_token"
    /\ ret.token.type = "str"
    /\ Len(ret.token.pieces) = 2
    /\ ret.token.pieces[2] = NotATimestamp
    /\ \E i \in issued : i.email = ret.user /\ i.token[1] = ret.token.pieces[1]
    /\ ret.result = Returned(FALSE)

\* C12: verify_session_token returns False for a credential whose issuedAt
\* timestamp lies in the future relative to the current time
\* (now - issuedAt < 0), even when its signature matches the identity.
C12_FutureTimestampRejected ==
    (/\ ret.op = "verify_session_token"
     /\ WellFormed(ret.token)
     /\ ret.at - ret.token.pieces[2] < 0)
        => ret.result = Returned(FALSE)

----------------------------------------------------------------------------
(* Retention of the daily-usage store *)

\* C13: after any call of check_daily_cover_letter_limit the persisted
\* daily-usage store contains no date key other than the current date, and
\* over any sequence of record and status calls across several days the store
\* never holds more than one date.
C13_SingleDayRetention ==
    [][/\ (ret'.op = "check_daily_cover_letter_limit" /\ now' = now)
            => DOMAIN usage_data' \subseteq {current_date'}
       /\ Cardinality(DOMAIN usage_data') <= 1
      ]_vars

----------------------------------------------------------------------------
(* Ordering within a request of the browser session *)

\* the outcomes of a run in which no generation returned
NoGeneration == {"not_authenticated", "daily_limit_reached", "no_resume_data", "raised"}

----------------------------------------------------------------------------
(* Caps of the stored profile *)

NoDuplicates(s) == \A i, j \in DOMAIN s : i /= j => s[i] /= s[j]

Min(a, b) == IF a <= b THEN a ELSE b

\* C15: preferredHighlights never holds more than 50 entries and never holds
\* a duplicate, after any number of update calls starting from the default
\* profile.
C15_HighlightsCapped ==
    \A u \in CapsUsers :
        /\ Len(load_user_preferences(u).preferred_highlights) <= 50
        /\ NoDuplicates(load_user_preferences(u).preferred_highlights)

\* C16: removedWords and addedPhrases each hold at most 50 entries in the
\* stored profile after any number of update calls starting from the default
\* profile, whatever the number of words an edit removes or adds.
C16_EditPatternsCapped ==
    \A f \in DOMAIN preferences :
        /\ Len(preferences[f].edit_patterns.commonly_removed_words) <= EditPatternCap
        /\ Len(preferences[f].edit_patterns.commonly_added_phrases) <= EditPatternCap

\* C16 witness: an edit that removed 51 words has been learned by a profile
\* that now holds 50 removed words, and a later edit added to them
C16_Witness ==
    \E u \in CapsUsers :
        /\ load_user_preferences(u).usage_count = 2
        /\ ret.op = "update_user_preferences_with_session_data"
        /\ IsEdit(ret, T_abc, T_ac)
        /\ Len(load_user_preferences(u).edit_patterns.commonly_removed_words)
              = EditPatternCap
        /\ <<"b">> \in RemovedWords(u)
        /\ Cardinality(RemovedWords(u) \cap
                {<<"w" \o ToString(i)>> : i \in 1 .. ManyWordsCount}) = EditPatternCap - 1

\* C17: applicationHistory never exceeds 20 entries and evicts oldest-first:
\* after n updates of one profile it holds exactly the last min(n, 20)
\* history entries, in the order they were appended (the entry of the k-th
\* update is the one whose highlights are those of the k-th application).
C17_HistoryKeepsLastTwenty ==
    [][\A u \in CapsUsers : (UpdateStep /\ u = ret'.user) =>
        LET h == load_user_preferences(u).job_application_history
            n == load_user_preferences(u)'.usage_count
            g == load_user_preferences(u)'.job_application_history
        IN  /\ Len(g) = Min(n, 20)
            /\ g[Len(g)].highlights_used = ret'.highlights
            /\ g[Len(g)].date = now
            /\ SubSeq(g, 1, Len(g) - 1) = IF Len(h) < 20 THEN h ELSE Tail(h)
            /\ \A i \in 1 .. Len(g) :
                  /\ g[i].highlights_used = CapsHighlights(n - Len(g) + i)
                  /\ g[i].job_company = job_company(CapsJob(n - Len(g) + i))
      ]_vars

\* C17 witness: after 22 updates the profile holds 20 entries, the oldest one
\* being that of the third update
C17_Witness ==
    \E u \in CapsUsers :
        /\ load_user_preferences(u).usage_count = 22
        /\ Len(load_user_preferences(u).job_application_history) = 20
        /\ load_user_preferences(u).job_application_history[1].highlights_used
              = CapsHighlights(3)
        /\ load_user_preferences(u).job_application_history[20].highlights_used
              = CapsHighlights(22)

\* C19: the company/job text stored in a history entry is never longer than
\* 100 characters: a job description of at most 100 characters is stored
\* unchanged, and a longer one is stored truncated with an ellipsis so that
\* the stored text, ellipsis included, has at most 100 characters.
C19_JobTextAtMostHundred ==
    \A f \in DOMAIN preferences :
        \A i \in DOMAIN preferences[f].job_application_history :
            /\ preferences[f].job_application_history[i].job_company.len <= 100
            /\ (~preferences[f].job_application_history[i].job_company.ellipsis)
                  => preferences[f].job_application_history[i].job_company
                        \in {job_company(CapsJob(k)) : k \in 1 .. 20}

\* the last position of word w in the list s
LastPosition(s, w) == CHOOSE i \in DOMAIN s : s[i] = w /\ \A j \in DOMAIN s : s[j] = w => j <= i

\* the duplicate-free sequence of s cut to its n most recent entries, keeping
\* of a repeated word either its first or its last occurrence
MostRecent(s, n) == {LastN(Dedupe(s), n), LastN(Reverse(Dedupe(Reverse(s))), n)}

\* the merge as claimed, for the stored list before, the newly diffed words
\* and the stored list after
MostRecentWins(prev, new, got) ==
    /\ got \in MostRecent(prev \o new, 50)
    /\ \A e \in Range(prev \o new) \ Range(got) : \A r \in Range(got) :
            LastPosition(prev \o new, r) > LastPosition(prev \o new, e)
    /\ Cardinality(Range(prev \o new)) <= 50 => Range(new) \subseteq Range(got)

\* C18: after a merge, removedWords (and likewise addedPhrases) is the
\* duplicate-free sequence of the previous entries followed by the newly
\* diffed words, cut to its 50 most recent entries; whenever an entry is
\* evicted every retained entry is more recent than it, and a word learned in
\* the current merge is retained when at most 50 distinct words exist.
C18_MostRecentWinsMerge ==
    [][\A u \in PrefUsers : (UpdateStep /\ u = ret'.user /\ ret'.analyzed) =>
        /\ MostRecentWins(
              load_user_preferences(u).edit_patterns.commonly_removed_words,
              analyze_user_edits(ret'.original, ret'.edited).removals,
              load_user_preferences(u)'.edit_patterns.commonly_removed_words)
        /\ MostRecentWins(
              load_user_preferences(u).edit_patterns.commonly_added_phrases,
              analyze_user_edits(ret'.original, ret'.edited).additions,
              load_user_preferences(u)'.edit_patterns.commonly_added_phrases)
      ]_vars


----------------------------------------------------------------------------
(* Properties of the audit log *)

\* the step is one call of log_security_event: the call attaches a handler
AuditCallStep == handlers' /= handlers

\* C20: each call of log_security_event appends exactly one line to the audit
\* log and leaves every line already there in place, so that the log of a
\* process holds as many lines as calls were made, in call order.
C20_OneLinePerCall ==
    [][AuditCallStep =>
        /\ Len(audit_log') = Len(audit_log) + 1
        /\ SubSeq(audit_log', 1, Len(audit_log)) = audit_log
        /\ Len(audit_log') = handlers'
      ]_vars

----------------------------------------------------------------------------
(* Properties of the audit statistics *)

\* the k-th audit call of the process wrote its line k times, the first of
\* them at position 1 + (k - 1) * k / 2
EventRecorded(k) == audit_log[1 + ((k - 1) * k) \div 2]

EventsOfKind(kind) == Cardinality({k \in 1 .. handlers : EventRecorded(k).event_type = kind})

\* C21: get_security_stats reports for each kind the number of events of that
\* kind that were recorded, whatever their identities and details are.
C21_CountsByKind ==
    [][ret'.op = "get_security_stats" =>
        /\ ret'.value.successful_logins = EventsOfKind("AUTH_SUCCESS")
        /\ ret'.value.failed_logins = EventsOfKind("AUTH_FAILURE")
        /\ ret'.value.file_accesses = EventsOfKind("FILE_ACCESS")
        /\ ret'.value.rate_limit_violations = EventsOfKind("RATE_LIMIT_EXCEEDED")
      ]_vars

----------------------------------------------------------------------------
(* Storage failures of the rate limiter *)

\* a step of SpecStorage that is a check_rate_limit call: the clock stands
StorageCallStep == now' = now /\ ret'.op = "check_rate_limit"

\* the windows of the identities other than the caller are kept by the step
OthersKept(action, user_email) ==
    /\ rate_data'[action] /= Malformed
    /\ \A other \in DOMAIN rate_data[action] \ {user_email} :
          /\ other \in DOMAIN rate_data'[action]
          /\ rate_data'[action][other] = rate_data[action][other]

\* C22: a call that finds the store malformed, or whose write of the updated
\* window fails, returns False, and it keeps the windows of the other
\* identities of a readable store.
C22_StorageFailureDenies ==
    [][StorageCallStep =>
        ((rate_data[ret'.action] = Malformed \/ ret'.write \in {"refused", "truncated"})
            => /\ ~ret'.value
               /\ rate_data[ret'.action] /= Malformed
                     => OthersKept(ret'.action, ret'.user))
      ]_vars

----------------------------------------------------------------------------
(* Keys of the authentication rate window *)

\* the attempts of one spelling that the limiter admitted in the last 15 minutes
RecentAttempts(email) ==
    Len(KeepNewer(Get(rate_data["authentication"], email, <<>>), cutoff_time(15)))

RECURSIVE SumAttempts(_)
SumAttempts(emails) ==
    IF emails = {} THEN 0
    ELSE LET e == CHOOSE x \in emails : TRUE
         IN  RecentAttempts(e) + SumAttempts(emails \ {e})

Spellings(identity) == {e \in AuthEmails : lower(e) = identity}

\* C23: the authentication window is keyed by the lowercased identity, so the
\* attempts admitted for all spellings of one address within 15 minutes are at
\* most 5 together.
C23_SpellingsShareWindow ==
    /\ \A k \in DOMAIN rate_data["authentication"] : k = lower(k)
    /\ \A e \in AuthEmails : SumAttempts(Spellings(lower(e))) <= 5

\* the limit alone, whatever the keys are
C23_LimitAcrossSpellings ==
    \A e \in AuthEmails : SumAttempts(Spellings(lower(e))) <= 5

----------------------------------------------------------------------------
(* Properties of the invitation lookup *)

\* the addresses of the model that are equal up to letter case
CaseClasses == {{"a@x.com", "A@x.com"}, {"b@x.com", "B@x.com"}, {"c@x.com"}}

SameUpToCase(a, b) == \E class \in CaseClasses : a \in class /\ b \in class

\* a step of SpecLookup that is a lookup
LookupStep == ret'.op = "get_user_info" /\ invited_users' = invited_users

\* C24: is_user_invited(e) is true exactly when a stored key equals e up to
\* letter case; get_user_info(e) then returns the record of such a key, and
\* None otherwise; no other spelling of e changes either result.
C24_LookupCaseInsensitive ==
    [][LookupStep =>
        LET Matches == {k \in DOMAIN invited_users : SameUpToCase(k, ret'.user)}
        IN  /\ ret'.invited <=> Matches /= {}
            /\ IF Matches /= {}
               THEN \E k \in Matches : ret'.info = invited_users[k]
               ELSE ret'.info = NoneValue
            /\ \A e2 \in LookupQueries :
                  SameUpToCase(e2, ret'.user) =>
                     /\ is_user_invited(e2) = ret'.invited
                     /\ get_user_info_in(ret'.order, e2) = ret'.info
      ]_vars

\* C24 witness: the roster holds two keys that are equal up to case with
\* different records, and a lookup found the record of the key spelled unlike
\* the query
C24_Witness ==
    /\ ret.op = "get_user_info"
    /\ ret.invited
    /\ {"a@x.com", "A@x.com"} \subseteq DOMAIN invited_users
    /\ invited_users["a@x.com"] /= invited_users["A@x.com"]
    /\ ret.user \in {"a@x.com", "A@x.com"}
    /\ ret.info /= invited_users[ret.user]
    /\ \E k \in DOMAIN invited_users : ret.info = invited_users[k]

----------------------------------------------------------------------------
(* Properties of the admin reset *)

\* the count stored for a user under today's date, 0 if there is none
StoredToday(user_email) == Get(Get(usage_data, current_date, EmptyMap), user_email, 0)

\* a step of SpecReset that is a successful reset
ResetStep == ret'.op = "reset_user_daily_limit" /\ ret'.value /\ audit_log' /= audit_log

\* C25: after a successful reset_user_daily_limit(u), the status of u on that
\* date has used_today = 0 and remaining = the limit, and the count of every
\* other identity on that date is as before.
C25_ResetFrame ==
    [][ResetStep =>
        \A u \in QuotaUsers :
            IF u = ret'.user
            THEN /\ check_daily_cover_letter_limit(u, DefaultDailyLimit)'.used_today = 0
                 /\ check_daily_cover_letter_limit(u, DefaultDailyLimit)'.remaining
                        = DefaultDailyLimit
            ELSE /\ StoredToday(u)' = StoredToday(u)
                 /\ check_daily_cover_letter_limit(u, DefaultDailyLimit)'
                        = check_daily_cover_letter_limit(u, DefaultDailyLimit)
      ]_vars

\* C25 witness: a user with generations today was reset while another user
\* has generations today as well
C25_Witness ==
    /\ ret.op = "reset_user_daily_limit"
    /\ ret.value
    /\ ret.used_before > 0
    /\ StoredToday(ret.user) = 0
    /\ \E other \in QuotaUsers \ {ret.user} : StoredToday(other) > 0

----------------------------------------------------------------------------
(* Concurrent calls on one store *)

\* the run has completed a call of the operation
Done(s, op) ==
    IF s \in DOMAIN calls THEN calls[s].at = "done" /\ calls[s].op = op ELSE FALSE

\* the step completes the call of run s
Finishes(s, op) == InCall(s, op) /\ calls'[s].at = "done"

\* two check_rate_limit calls for the same identity and action that loaded
\* the same file: neither saw what the other saved
SameCopy(p, q) ==
    /\ calls[p].user = calls[q].user
    /\ calls[p].action = calls[q].action
    /\ calls[p].loaded = calls[q].loaded

\* C26: when a check_rate_limit call is admitted that loaded the store before
\* an admitted call for the same identity and action saved it, the window it
\* persists is its own copy plus its own timestamp: of the two admissions one
\* timestamp is persisted.
C26_OneTimestampPersisted ==
    [][\A p, q \in RaceSessions :
         (/\ p /= q
          /\ Done(p, "check_rate_limit")
          /\ Finishes(q, "check_rate_limit")
          /\ SameCopy(p, q)
          /\ calls[p].value
          /\ calls'[q].value)
         => /\ rate_data'[calls[q].action][calls[q].user]
                 = Append(call_requests(calls[q]), calls[q].current_time)
            /\ Len(rate_data'[calls[q].action][calls[q].user])
                 <= Len(Get(calls[p].loaded, calls[p].user, <<>>)) + 1
      ]_vars

\* C26 witness: two calls for one identity with max_requests = 1 were both
\* admitted within one window of 1 minute, and the window stored holds one
\* timestamp
C26_Witness ==
    \E p, q \in RaceSessions :
        /\ p /= q
        /\ Done(p, "check_rate_limit")
        /\ Done(q, "check_rate_limit")
        /\ SameCopy(p, q)
        /\ calls[p].value /\ calls[q].value
        /\ calls[p].max_requests = 1 /\ calls[q].max_requests = 1
        /\ calls[q].current_time - calls[p].current_time < 60
        /\ calls[p].current_time - calls[q].current_time < 60
        /\ Len(rate_data[calls[p].action][calls[p].user]) = 1

\* what the completed call of run s added is in the store
Present(s) ==
    IF calls[s].op = "check_rate_limit"
    THEN calls[s].value =>
            \E i \in DOMAIN Get(rate_data[calls[s].action], calls[s].user, <<>>) :
                rate_data[calls[s].action][calls[s].user][i] = calls[s].current_time
    ELSE Get(Get(usage_data, calls[s].current_date, EmptyMap), calls[s].user, 0) >= 1

\* C27: once the calls of two runs for two different identities on the same
\* store have completed, in whatever order their steps were taken, the
\* timestamp or the increment of each identity is in the store.
C27_OtherIdentityKept ==
    \A p, q \in RaceSessions :
        (/\ p /= q
         /\ DOMAIN calls = {p, q}
         /\ calls[p].at = "done" /\ calls[q].at = "done"
         /\ calls[p].op = calls[q].op
         /\ calls[p].user /= calls[q].user)
        => Present(p) /\ Present(q)

----------------------------------------------------------------------------
(* Isolation of the storage of the identities *)

ValidIdentities == {e \in KeysEmails : validate_email_format(e)}

\* the identities whose user_id is the key k
OwnersOfId(k) == {e \in ValidIdentities : safe_user_id(e) = k}

\* C28: two distinct valid identities never share a storage key: a daily
\* count is stored under the user_id of one identity only, the session of an
\* identity works with the user_id of that identity, and the directories it is
\* granted are those of no other identity.
C28_StorageIsolated ==
    /\ \A d \in DOMAIN usage_data : \A k \in DOMAIN usage_data[d] :
          Cardinality(OwnersOfId(k)) <= 1
    /\ (check_authentication_value(session) /\ "user_id" \in DOMAIN session)
          => session["user_id"] = safe_user_id(session["user_email"])
    /\ (ret.op = "get_user_directories" /\ ~ret.result.raised)
          => \A e \in ValidIdentities \ {ret.user} :
                user_directories(safe_user_id(e)) /= ret.result.value

\* the session part alone: the user_id of an authenticated session is the one
\* of its address
C28_SessionUsesOwnId ==
    (check_authentication_value(session) /\ "user_id" \in DOMAIN session)
        => session["user_id"] = safe_user_id(session["user_email"])

----------------------------------------------------------------------------
(* The authentication gate over the runs of main *)

\* the session holds a credential that the service issued for its identity
\* and that is at most 24 hours old
TokenUnexpired(sess) ==
    \E i \in issued :
        /\ i.email = sess["user_email"]
        /\ i.token = sess["session_token"]
        /\ now - i.token[2] <= 24 * 3600

\* the identity of the session is in the invitation store
IdentityInvited(sess) ==
    \E k \in DOMAIN invited_users : SameUpToCase(k, sess["user_email"])

Flagged(sess) == Get(sess, "authenticated", FALSE)

\* a run of main whose gate is check_authentication alone
GateStep == ret'.op = "check_authentication" /\ invited_users' = invited_users /\ now' = now

\* a run of main in which the form was submitted and access granted
LoginStep ==
    /\ ret'.op = "show_authentication_page"
    /\ ret'.value = "granted"
    /\ session' /= session

\* C29: a run passes the gate only with the flag set, the identity in the
\* store and an unexpired credential of that identity; that holds after a
\* successful login; a run that finds the identity removed or the credential
\* expired returns False and clears the flag, and the flag is set again by a
\* successful login only.
C29_AuthenticationGate ==
    [][/\ GateStep =>
            /\ ret'.value =>
                  /\ Flagged(session)
                  /\ IdentityInvited(session)
                  /\ TokenUnexpired(session)
                  /\ session' = session
            /\ (Flagged(session) /\ ~ret'.value) => ~Flagged(session')
            /\ ~Flagged(session) => ~ret'.value
       /\ LoginStep => check_authentication_value(session)'
       /\ (Flagged(session') /\ ~Flagged(session)) => LoginStep
      ]_vars

\* C29 witness: a run has cleared the flag of a session whose identity was
\* removed from the store while its credential was still valid
C29_Witness ==
    /\ ret.op = "check_authentication"
    /\ ~ret.value
    /\ "session_token" \in DOMAIN session
    /\ ~Flagged(session)
    /\ ~IdentityInvited(session)
    /\ TokenUnexpired(session)

----------------------------------------------------------------------------
(* Admission and the status field of the roster *)

\* "Save Changes" that keeps every row and edits nothing but status fields
StatusOnlyStep ==
    /\ invited_users' /= invited_users
    /\ DOMAIN invited_users' = DOMAIN invited_users
    /\ \A k \in DOMAIN invited_users :
         [invited_users'[k] EXCEPT !.status = invited_users[k].status]
            = invited_users[k]

\* C30: admission does not depend on the status field: between two rosters
\* that differ only in the status of identities (active, inactive or
\* suspended), is_user_invited and the outcome of show_authentication_page
\* are the same for every address, and check_authentication returns the same
\* value for the session, so a suspended or inactive identity authenticates
\* exactly like an active one.
C30_StatusNotConsulted ==
    [][StatusOnlyStep =>
          /\ \A e \in AuthEmails \cup {""} :
               /\ is_user_invited(e)' = is_user_invited(e)
               /\ LoginOutcome(e)' = LoginOutcome(e)
          /\ check_authentication_value(session)'
                = check_authentication_value(session)
          /\ check_authentication_session(session)'
                = check_authentication_session(session)
      ]_vars

\* check_authentication returned True for an identity that logged in as
\* active and is marked suspended at the time of the run
C30_Witness ==
    /\ ret.op = "check_authentication"
    /\ ret.value
    /\ session["user_info"].status = "active"
    /\ \E k \in DOMAIN invited_users :
         /\ lower(k) = session["user_email"]
         /\ invited_users[k].status = "suspended"

====
